---------------------------- MODULE Spec2Model ----------------------------
(***************************************************************************)
(* A model of the college-counselling application:                         *)
(*   - the actionable-item extractor of PrimaryCounselorAgent              *)
(*     (agents/primary_counselor.py),                                      *)
(*   - the provider call wrappers of BaseAgent, PrimaryCounselorAgent and  *)
(*     CounselorAgent (agents/base.py, primary_counselor.py, counselor.py),*)
(*   - the college-matches cache (components/college_matches.py).          *)
(*                                                                         *)
(* Text is a sequence of lexemes.  Each lexeme stands for the literal text *)
(* given below; no lexeme's text is a prefix of another's, and the markers *)
(* the regular expressions look for each are one lexeme, so matching on    *)
(* lexemes is matching on characters.                                      *)
(*   "OA" <actionable id="     "QC" ">          "CA" </actionable>         *)
(*   "SO" [system]             "SC" [/system]                              *)
(*   "NL" newline  "SP" space  "LB" [   "RB" ]   "COL" :                   *)
(*   "1" "2" digits; every other lexeme is the word it spells.             *)
(***************************************************************************)
EXTENDS Integers, Sequences, FiniteSets, TLC

VARIABLES
    \* ---- extractor (PrimaryCounselorAgent.get_response, lines 313-332)
    tags,        \* the tags the response was written with
    meta,        \* the sub-headers of its [system] block
    sysKind,     \* "none" | "closed" | "open": the [system] block
    layout,      \* the text around the tags
    response,    \* raw_response
    xpc,         \* "raw" | "parsed" | "formatted"
    items,       \* actionable_items
    display,     \* formatted_response["content"]
    rendered,    \* what the chat rendered of the result of get_response
    direct,      \* what the chat rendered of raw content and given items
    \* ---- provider call wrappers (_make_api_call)
    agent,       \* "base" | "primary" | "counselor": the class of the agent
    fallbackCfgd, \* the agent's configuration names a fallback
    fallbackValid, \* ModelConfig(**fallback) validates
    sameVendor,  \* the fallback's provider is the primary's provider
    config,      \* self.config: "primary" | "fallback"
    apc,         \* "idle" | "try"
    depth,       \* 0 in the caller's call, 1 in the recursive fallback call
    attempt,     \* the loop index / retry_count of the running call
    calls,       \* the provider calls of the current (last) invocation
    outcome,     \* how the last invocation ended
    origin,      \* the configuration whose call produced the returned text
    swaps,       \* switches to the fallback configuration, this invocation
    entryConfig, \* self.config when the invocation began
    invocations, \* invocations so far
    routing,     \* what the last route_query did
    \* ---- college-matches cache (render_college_matches)
    profile,     \* the user's profiles row: "none" or its gpa
    now,         \* the clock, in hours
    college_matches, \* the user's rows of college_matches, oldest first
    nextDoc,     \* the id (SERIAL) of the next inserted row
    lastFetch,   \* what the last render_college_matches did
    conn,        \* the transaction open on the one database connection
    req,         \* the refresh requests running in other sessions
    \* ---- chat sessions and the plan (components/chat.py)
    user,        \* st.session_state.user: "absent" | "none" | "u1"
    session_messages, \* st.session_state.messages
    current_session_id, \* st.session_state.current_session_id, 0 for None
    chat_sessions, \* the rows of chat_sessions, oldest first
    messages,    \* the rows of messages, oldest first
    plan_items,  \* the rows of plan_items, oldest first
    lastAdd,     \* what the last add_to_plan did
    \* ---- achievements (models/achievement.py)
    achievement, \* the name of the Achievement instance that is checked
    achievements, \* the names of the rows of achievements, oldest first
    unique_achievement_name, \* the constraint of that name exists
    lastInit,    \* how the last initialize_default_achievements ended
    user_achievements, \* per user, the row for this achievement
    checks,      \* check_progress calls so far; the clock of completed_at
    lastCheck,   \* what the last check_progress did
    \* ---- the database wrapper (models/database.py)
    dbconn,      \* self.conn: "none" | "ok" | "lost" | "failed_txn"
    lastCall,    \* what the last execute / execute_one did
    \* ---- concurrent callers of PrimaryCounselorAgent._make_api_call
    kconfig,     \* the agent's self.config: "primary" | "fallback"
    thr,         \* per caller: position, nesting, saved old_config
    \* ---- college explorer (st.session_state and its widgets)
    page_number,        \* st.session_state.page_number
    search_term,        \* st.session_state.search_term
    selected_states,    \* value of the "Select States" multiselect
    institution_types,  \* value of the "Institution Type" multiselect
    favorites,          \* user_favorite_institutions rows of the user
    \* ---- timeline deadlines
    application_deadlines,  \* rows of the user, by id
    deadline_reminders,     \* rows of the user
    lastSubmit,             \* message of the last deadline handler
    \* ---- college-match walkthrough (st.session_state)
    walkthrough_step,       \* 0..3
    walkthrough_data,       \* per input step: the stored answers or "none"
    widgets,                \* the answers in the widgets of the step shown
    walkthrough_complete,   \* set once recommendations were stored
    lastGenerate,           \* what generate_recommendations was given
    lastClick               \* the button of the last run

xvars == <<tags, meta, sysKind, layout, response, xpc, items, display,
           rendered, direct>>
avars == <<agent, fallbackCfgd, fallbackValid, sameVendor, config, apc, depth,
           attempt, calls, outcome, origin, swaps, entryConfig, invocations,
           routing>>
cvars == <<profile, now, college_matches, nextDoc, lastFetch, conn, req>>
hvars == <<user, session_messages, current_session_id, chat_sessions,
           messages, plan_items, lastAdd>>
gvars == <<achievement, achievements, unique_achievement_name, lastInit,
           user_achievements, checks, lastCheck>>
dvars == <<dbconn, lastCall>>
\* the subsystems after the chat
kvars == <<kconfig, thr>>
evars == <<page_number, search_term, selected_states, institution_types, favorites>>
tvars == <<application_deadlines, deadline_reminders, lastSubmit>>
wvars == <<walkthrough_step, walkthrough_data, widgets,
           walkthrough_complete, lastGenerate, lastClick>>
ovars == <<gvars, dvars, kvars, evars, tvars, wvars>>
\* all but one of them
notG == <<xvars, avars, cvars, hvars, dvars, kvars, evars, tvars, wvars>>
notD == <<xvars, avars, cvars, hvars, gvars, kvars, evars, tvars, wvars>>
notK == <<xvars, avars, cvars, hvars, gvars, dvars, evars, tvars, wvars>>
notE == <<xvars, avars, cvars, hvars, gvars, dvars, kvars, tvars, wvars>>
notT == <<xvars, avars, cvars, hvars, gvars, dvars, kvars, evars, wvars>>
\* the walkthrough writes college_matches too
notW == <<xvars, avars, hvars, gvars, dvars, kvars, evars, tvars>>
vars == <<xvars, avars, cvars, hvars, ovars>>

NotRouted ==
    [asked |-> FALSE, llm |-> "none", result |-> "none", providerCalls |-> 0]

\* the sessions, other than the one followed step by step, in which the
\* user presses Refresh Matches
Requests == {"r1", "r2"}

NoFetch ==
    [kind |-> "none", forced |-> FALSE, hadCache |-> FALSE, age |-> 0,
     profileAtGen |-> "none", profileNow |-> "none", llmCalled |-> FALSE,
     served |-> "none", doc |-> 0]

\* the parts a specification does not exercise stay as constructed
XQuiet ==
    /\ tags = <<>> /\ meta = <<>> /\ sysKind = "none" /\ layout = "plain"
    /\ response = <<>> /\ xpc = "raw" /\ items = <<>> /\ display = <<>>
    /\ rendered = <<>> /\ direct = <<>>

AQuiet ==
    /\ agent = "base" /\ fallbackCfgd = FALSE /\ fallbackValid = FALSE
    /\ sameVendor = FALSE /\ config = "primary" /\ apc = "idle" /\ depth = 0
    /\ attempt = 0 /\ calls = <<>> /\ outcome = "none" /\ origin = "none"
    /\ swaps = 0 /\ entryConfig = "primary" /\ invocations = 0
    /\ routing = NotRouted

CQuiet ==
    /\ profile = "none" /\ now = 0 /\ college_matches = <<>>
    /\ nextDoc = 1 /\ lastFetch = NoFetch
    /\ conn = [no |-> 1, dirty |-> FALSE]
    /\ req = [r \in Requests |-> [pc |-> "idle", prof |-> "none", doc |-> 0]]

NotAdded ==
    [called |-> FALSE, user |-> "absent", exists |-> FALSE, fields |-> {},
     ok |-> FALSE, msg |-> "none", inserted |-> FALSE, readBack |-> FALSE,
     raised |-> FALSE]

HQuiet ==
    /\ user = "absent" /\ session_messages = <<>> /\ current_session_id = 0
    /\ chat_sessions = <<>> /\ messages = <<>> /\ plan_items = <<>>
    /\ lastAdd = NotAdded

AUsers == {"u1", "u2"}

NoSnapshot == [present |-> FALSE, num |-> 0, fields |-> {}]

NoProgress ==
    [exists |-> FALSE, progress |-> NoSnapshot, completed |-> FALSE,
     completed_at |-> 0]

NotChecked ==
    [called |-> FALSE, user |-> "u1", state |-> NoSnapshot,
     existed |-> FALSE, wasCompleted |-> FALSE, ret |-> "none"]

GQuiet ==
    /\ achievement = "Chat Champion" /\ achievements = <<>>
    /\ unique_achievement_name = FALSE /\ lastInit = "none"
    /\ user_achievements = [u \in AUsers |-> NoProgress]
    /\ checks = 0 /\ lastCheck = NotChecked

NotCalled ==
    [called |-> FALSE, before |-> "ok", method |-> "execute",
     is_select |-> TRUE, committed |-> FALSE, attempts |-> 0, ran |-> FALSE,
     reconnected |-> FALSE, outcome |-> "none"]

DQuiet == dbconn = "ok" /\ lastCall = NotCalled

Callers == {"t1", "t2"}

MaxLevel == 2      \* nested fallback calls of one caller

\* a caller that has not entered _make_api_call
Idle ==
    [pc |-> "idle", level |-> 0,
     old |-> [l \in 0..MaxLevel |-> "none"], first |-> "none",
     used |-> "none", outcome |-> "none"]

KQuiet ==
    /\ kconfig = "primary"
    /\ thr = [t \in Callers |-> Idle]

\* the explorer as first opened: page 0, no search term, no filter
EQuiet ==
    /\ page_number = 0
    /\ search_term = ""
    /\ selected_states = {}
    /\ institution_types = {}
    /\ favorites = {}

\* no deadline yet
TQuiet ==
    /\ application_deadlines = <<>>
    /\ deadline_reminders = <<>>
    /\ lastSubmit = "none"

\* steps = ["Preferences", "Location", "Campus Life", "Review"]
LastStep == 3
InputSteps == 0..(LastStep - 1)

\* the walkthrough as first shown: step 0, walkthrough_data = {}
WQuiet ==
    /\ walkthrough_step = 0
    /\ walkthrough_data = [s \in InputSteps |-> "none"]
    /\ widgets = "a"
    /\ walkthrough_complete = FALSE
    /\ lastGenerate = [called |-> FALSE,
                       preferences |-> [s \in InputSteps |-> "none"]]
    /\ lastClick = "none"

OQuiet == GQuiet /\ DQuiet /\ KQuiet /\ EQuiet /\ TQuiet /\ WQuiet

---------------------------------------------------------------------------
(* Text helpers: what Python's str and re do, on lexemes.                  *)

WhiteSpace == {"SP", "NL"}
Digits == {"1", "2"}
\* lexemes whose text holds a double quote
QuoteLex == {"OA", "QC"}

From(s, i) == SubSeq(s, i, Len(s))

Last(s) == s[Len(s)]

\* least index >= i of s whose lexeme is in set L, 0 when there is none
FirstIn(s, L, i) ==
    LET S == {j \in i..Len(s) : s[j] \in L}
    IN  IF S = {} THEN 0 ELSE CHOOSE j \in S : \A k \in S : j <= k

\* str.strip()
RECURSIVE LStrip(_)
LStrip(s) == IF s # <<>> /\ Head(s) \in WhiteSpace THEN LStrip(Tail(s)) ELSE s

RECURSIVE RStrip(_)
RStrip(s) ==
    IF s # <<>> /\ Last(s) \in WhiteSpace THEN RStrip(SubSeq(s, 1, Len(s) - 1)) ELSE s

Strip(s) == RStrip(LStrip(s))

\* str.lower(), lexeme by lexeme
LowerLex(x) ==
    CASE x = "Category" -> "category"
      [] x = "Year" -> "year"
      [] x = "Clubs" -> "clubs"
      [] x = "Join" -> "join"
      [] x = "Hi" -> "hi"
      [] OTHER -> x

Lower(s) == [i \in 1..Len(s) |-> LowerLex(s[i])]

\* str.split(sep) for a one-lexeme separator
RECURSIVE Split(_, _)
Split(s, sep) ==
    LET j == FirstIn(s, {sep}, 1)
    IN  IF j = 0 THEN <<s>>
        ELSE <<SubSeq(s, 1, j - 1)>> \o Split(From(s, j + 1), sep)

\* str.replace(old, new): every occurrence, left to right
RECURSIVE ReplaceAll(_, _, _)
ReplaceAll(s, old, new) ==
    IF Len(s) < Len(old) \/ old = <<>> THEN s
    ELSE IF SubSeq(s, 1, Len(old)) = old
         THEN new \o ReplaceAll(From(s, Len(old) + 1), old, new)
         ELSE <<Head(s)>> \o ReplaceAll(Tail(s), old, new)

\* the characters of the two bracketed markers, for code that looks at
\* single characters ('[', ']') of a line
RECURSIVE Explode(_)
Explode(s) ==
    IF s = <<>> THEN <<>>
    ELSE (CASE Head(s) = "SO" -> <<"LB", "system", "RB">>
            [] Head(s) = "SC" -> <<"LB", "/system", "RB">>
            [] OTHER -> <<Head(s)>>) \o Explode(Tail(s))

---------------------------------------------------------------------------
(* The regular expressions.                                                *)

NoMatch == [ok |-> FALSE, p |-> 0, q |-> 0, r |-> 0]

\* <actionable id="ID">TEXT</actionable> anchored at p: ID is s[p+1..q-1],
\* TEXT is s[q+1..r-1].  idDigits: the id is \d+ instead of [^"]+ .
\* dotAll: re.DOTALL, '.' also matches a newline.
TagAt(s, p, idDigits, dotAll) ==
    IF p > Len(s) \/ s[p] # "OA" THEN NoMatch
    ELSE LET q == FirstIn(s, QuoteLex, p + 1)
         IN  IF q = 0 \/ s[q] # "QC" \/ q = p + 1 THEN NoMatch
             ELSE IF idDigits /\ \E i \in (p + 1)..(q - 1) : s[i] \notin Digits
                  THEN NoMatch
             ELSE LET r == FirstIn(s, {"CA"}, q + 1)
                  IN  IF r = 0 THEN NoMatch
                      ELSE IF ~dotAll /\ \E i \in (q + 1)..(r - 1) : s[i] = "NL"
                           THEN NoMatch
                      ELSE [ok |-> TRUE, p |-> p, q |-> q, r |-> r]

\* the leftmost match starting at or after index i
TagSearch(s, i, idDigits, dotAll) ==
    LET S == {p \in i..Len(s) : TagAt(s, p, idDigits, dotAll).ok}
    IN  IF S = {} THEN NoMatch
        ELSE TagAt(s, CHOOSE p \in S : \A k \in S : p <= k, idDigits, dotAll)

\* re.finditer: the non-overlapping matches, left to right
RECURSIVE TagMatches(_, _, _, _)
TagMatches(s, i, idDigits, dotAll) ==
    LET m == TagSearch(s, i, idDigits, dotAll)
    IN  IF ~m.ok THEN <<>>
        ELSE <<m>> \o TagMatches(s, m.r + 1, idDigits, dotAll)

\* a [system] marker that is never closed taken as a block up to the end
SystemSearchToEnd(s, i) ==
    LET p == FirstIn(s, {"SO"}, i)
        r == IF p = 0 THEN 0 ELSE FirstIn(s, {"SC"}, p + 1)
    IN  IF p = 0 THEN NoMatch
        ELSE [ok |-> TRUE, p |-> p, q |-> p, r |-> IF r = 0 THEN Len(s) ELSE r]

\* \[system\](.*?)\[/system\] with re.DOTALL, leftmost from index i:
\* the block is s[p..r], its content s[p+1..r-1]
SystemSearch(s, i) ==
    LET p == FirstIn(s, {"SO"}, i)
        r == IF p = 0 THEN 0 ELSE FirstIn(s, {"SC"}, p + 1)
    IN  IF p = 0 \/ r = 0 THEN NoMatch
        ELSE [ok |-> TRUE, p |-> p, q |-> p, r |-> r]

\* re.sub(r'\[system\].*?\[/system\]', '', s, flags=re.DOTALL)
RECURSIVE RemoveSystem(_)
RemoveSystem(s) ==
    LET m == SystemSearch(s, 1)
    IN  IF ~m.ok THEN s
        ELSE SubSeq(s, 1, m.p - 1) \o RemoveSystem(From(s, m.r + 1))

\* re.sub(r'<actionable id="\d+">(.*?)</actionable>', r'\1', s): no DOTALL
RECURSIVE FallbackSub(_)
FallbackSub(s) ==
    LET m == TagSearch(s, 1, TRUE, FALSE)
    IN  IF ~m.ok THEN s
        ELSE SubSeq(s, 1, m.p - 1) \o SubSeq(s, m.q + 1, m.r - 1)
             \o FallbackSub(From(s, m.r + 1))

\* re.sub(r'\n{3,}', '\n\n', s)
RECURSIVE NewlineRun(_)
NewlineRun(s) == IF s # <<>> /\ Head(s) = "NL" THEN 1 + NewlineRun(Tail(s)) ELSE 0

RECURSIVE CollapseNewlines(_)
CollapseNewlines(s) ==
    IF s = <<>> THEN <<>>
    ELSE LET n == NewlineRun(s)
         IN  IF n = 0 THEN <<Head(s)>> \o CollapseNewlines(Tail(s))
             ELSE (IF n >= 3 THEN <<"NL", "NL">> ELSE SubSeq(s, 1, n))
                  \o CollapseNewlines(From(s, n + 1))

---------------------------------------------------------------------------
(* _parse_actionable_items: the [system] metadata.                         *)

\* url=item_meta.get('url') when the sub-header lists no url
None == <<"<None>">>

\* dict.get(key, default)
Get(d, key, default) == IF key \in DOMAIN d THEN d[key] ELSE default

\* d[key] = value
Put(d, key, value) ==
    [k \in (DOMAIN d) \cup {key} |-> IF k = key THEN value ELSE d[k]]

EmptyDict == [k \in {} |-> <<>>]

\* the lines of a repeated label merged into the earlier entry
SaveCurrentMerged(st) ==
    IF st.hasId /\ st.current_metadata # EmptyDict
    THEN Put(st.metadata, st.current_id,
             IF st.current_id \in DOMAIN st.metadata
             THEN [k \in DOMAIN st.metadata[st.current_id]
                          \cup DOMAIN st.current_metadata |->
                      IF k \in DOMAIN st.current_metadata
                      THEN st.current_metadata[k]
                      ELSE st.metadata[st.current_id][k]]
             ELSE st.current_metadata)
    ELSE st.metadata

\* line.startswith('actionable:')
IsActionableHeader(line) ==
    Len(line) >= 2 /\ line[1] = "actionable" /\ line[2] = "COL"

\* line.startswith('[') and line.endswith(']')
IsSubHeader(line) ==
    LET ex == Explode(line) IN ex # <<>> /\ Head(ex) = "LB" /\ Last(ex) = "RB"

\* line[1:-1]
LineLabel(line) == LET ex == Explode(line) IN SubSeq(ex, 2, Len(ex) - 1)

\* key, value = line.split(':', 1); key.strip().lower(), value.strip()
LineKey(line) == Lower(Strip(SubSeq(line, 1, FirstIn(line, {"COL"}, 1) - 1)))

LineValue(line) == Strip(From(line, FirstIn(line, {"COL"}, 1) + 1))

\* the state of the loop over the lines (lines 124-126)
ParseStart ==
    [metadata |-> EmptyDict, hasId |-> FALSE, current_id |-> <<>>,
     current_metadata |-> EmptyDict]

\* if current_id is not None and current_metadata: metadata[current_id] = ...
SaveCurrent(st) ==
    IF st.hasId /\ st.current_metadata # EmptyDict
    THEN Put(st.metadata, st.current_id, st.current_metadata)
    ELSE st.metadata

\* one pass of the loop body (lines 129-140)
ParseLine(st, rawLine) ==
    LET line == Strip(rawLine)
    IN  IF line = <<>> THEN st
        ELSE IF IsActionableHeader(line) THEN st
        ELSE IF IsSubHeader(line)
             THEN [metadata |-> SaveCurrent(st), hasId |-> TRUE,
                   current_id |-> LineLabel(line), current_metadata |-> EmptyDict]
        ELSE IF (\E j \in 1..Len(line) : line[j] = "COL") /\ st.hasId
             THEN [st EXCEPT !.current_metadata =
                                Put(@, LineKey(line), LineValue(line))]
        ELSE st

RECURSIVE ParseLines(_, _)
ParseLines(st, lines) ==
    IF lines = <<>> THEN st ELSE ParseLines(ParseLine(st, Head(lines)), Tail(lines))

\* "Save the last item" (lines 142-144) left out
ParseMetadataNoLastSave(system_content) ==
    ParseLines(ParseStart, Split(system_content, "NL")).metadata

\* lines 123-144: the metadata dict of a [system] block's content
ParseMetadata(system_content) ==
    SaveCurrent(ParseLines(ParseStart, Split(system_content, "NL")))

\* the metadata addressed by the tag's position (1, 2, ...) instead of its id
MetaKeyPositional(item_id, idx) == <<ToString(idx)>>

\* item_id in metadata / metadata[item_id]; idx is the tag's position
MetaKey(item_id, idx) == Explode(item_id)

\* ActionableItem(...).to_dict() for one match (lines 149-160)
MakeItem(s, m, item_meta) ==
    [id |-> SubSeq(s, m.p + 1, m.q - 1),
     text |-> Strip(SubSeq(s, m.q + 1, m.r - 1)),
     category |-> Get(item_meta, <<"category">>, <<>>),
     year |-> Get(item_meta, <<"year">>, <<>>),
     url |-> Get(item_meta, <<"url">>, None)]

RECURSIVE CollectItems(_, _, _, _)
CollectItems(s, ms, metadata, idx) ==
    IF ms = <<>> THEN <<>>
    ELSE LET m == Head(ms)
             key == MetaKey(SubSeq(s, m.p + 1, m.q - 1), idx)
         IN  (IF key \in DOMAIN metadata
              THEN <<MakeItem(s, m, metadata[key])>> ELSE <<>>)
             \o CollectItems(s, Tail(ms), metadata, idx + 1)

\* _parse_actionable_items (lines 107-167).  The code's except branch
\* returns [] too; no step of the body raises on a str.
ParseActionableItems(resp) ==
    LET system_match == SystemSearch(resp, 1)
    IN  IF ~system_match.ok THEN <<>>
        ELSE LET system_content ==
                     Strip(SubSeq(resp, system_match.p + 1, system_match.r - 1))
             IN  CollectItems(resp, TagMatches(resp, 1, FALSE, TRUE),
                              ParseMetadata(system_content), 1)

\* the loop of lines 175-180
RECURSIVE ReplaceItems(_, _)
ReplaceItems(d, its) ==
    IF its = <<>> THEN d
    ELSE ReplaceItems(
             ReplaceAll(d, <<"OA">> \o Head(its).id \o <<"QC">> \o Head(its).text
                            \o <<"CA">>, Head(its).text),
             Tail(its))

\* the .strip() of line 172 left out
FormatResponseNoStrip(resp, its) ==
    CollapseNewlines(FallbackSub(ReplaceItems(RemoveSystem(resp), its)))

\* _format_response_with_actionable (lines 169-191), its "content"
FormatResponse(resp, its) ==
    CollapseNewlines(FallbackSub(ReplaceItems(Strip(RemoveSystem(resp)), its)))

\* parse_and_render_message (components/chat.py 146-212): the pieces it
\* hands to Streamlit, in order.  "markdown" is st.markdown(text); "plan"
\* is the Add-to-Plan block of lines 179-196, st.markdown(text) in the
\* first column and the button of item id in the second.
Markdown(text) == [kind |-> "markdown", text |-> text, id |-> <<>>]

\* lines 166-169 and 203-206: text is rendered unless it is blank
TextPiece(text) == IF Strip(text) # <<>> THEN <<Markdown(text)>> ELSE <<>>

\* lines 172-199 for one match m
TagPiece(content, m, ids) ==
    LET item_id == SubSeq(content, m.p + 1, m.q - 1)
        text == SubSeq(content, m.q + 1, m.r - 1)
    IN  IF item_id \in ids
        THEN [kind |-> "plan", text |-> text, id |-> item_id]
        ELSE Markdown(text)

\* the loop of lines 164-200 from position pos, and lines 202-206
RECURSIVE RenderFrom(_, _, _, _)
RenderFrom(content, pos, ms, ids) ==
    IF ms = <<>> THEN TextPiece(From(content, pos))
    ELSE LET m == Head(ms)
         IN  TextPiece(SubSeq(content, pos, m.p - 1))
             \o <<TagPiece(content, m, ids)>>
             \o RenderFrom(content, m.r + 1, Tail(ms), ids)

\* the tags found with the pattern of the agent and of the test,
\* <actionable id="([^"]+)">(.*?)</actionable> with re.DOTALL
RenderMessageAnyId(content, actionable_items) ==
    RenderFrom(content, 1, TagMatches(content, 1, FALSE, TRUE),
               {actionable_items[i].id : i \in 1..Len(actionable_items)})

\* actionable_pattern = r'<actionable id="(\d+)">(.*?)</actionable>',
\* re.finditer without flags (lines 160-161); actionable_map (line 150)
RenderMessage(content, actionable_items) ==
    RenderFrom(content, 1, TagMatches(content, 1, TRUE, FALSE),
               {actionable_items[i].id : i \in 1..Len(actionable_items)})

---------------------------------------------------------------------------
(* The responses the extractor is run on: text in the format the system    *)
(* prompt asks the model for (lines 196-208), and malformed variants.      *)

MaxTags == 2
MaxMeta == 2

Uuid == <<"4f8c">>
TagIds == {<<"1">>, Uuid}
PlainText == <<"Join", "SP", "robotics", "SP", "club">>
PaddedText == <<"SP", "Take", "NL", "AP", "SP">>

\* a tag: its id, its text, and whether </actionable> closes it
TagChoices ==
    [id : TagIds, text : {PlainText, PaddedText}, closed : {TRUE}]
        \cup {[id |-> <<"1">>, text |-> PlainText, closed |-> FALSE]}

\* a sub-header [label] and the lines under it
FieldSets == {"cy", "full", "url"}
MetaChoices == [label : TagIds, fields : FieldSets]

Layouts == {"plain", "spaced"}

SeqsUpTo(S, n) == UNION {[1..k -> S] : k \in 0..n}

RenderTag(t) ==
    <<"OA">> \o t.id \o <<"QC">> \o t.text \o (IF t.closed THEN <<"CA">> ELSE <<>>)

UrlText == <<"http", "COL", "//x">>

RenderFields(f) ==
    CASE f = "cy" ->
           <<"category", "COL", "SP", "Clubs", "NL",
             "year", "COL", "SP", "1", "0th", "NL">>
      [] f = "full" ->
           <<"Category", "SP", "COL", "SP", "SP", "Clubs", "SP", "NL",
             "SP", "year", "COL", "1", "0th", "NL",
             "url", "COL", "SP">> \o UrlText \o <<"NL">>
      [] f = "url" -> <<"url", "COL", "SP">> \o UrlText \o <<"NL">>
      [] f = "other" ->
           <<"category", "COL", "SP", "Essays", "NL",
             "year", "COL", "SP", "1", "1th", "NL">>
      [] f = "none" -> <<>>

RenderMeta(e) == <<"LB">> \o e.label \o <<"RB", "NL">> \o RenderFields(e.fields)

RECURSIVE Join(_, _)
Join(parts, sep) ==
    IF parts = <<>> THEN <<>>
    ELSE IF Len(parts) = 1 THEN Head(parts)
    ELSE Head(parts) \o sep \o Join(Tail(parts), sep)

Intro(l) == IF l = "plain" THEN <<"Hi", "SP">> ELSE <<"SP", "Hi", "NL", "NL", "NL">>
Sep(l) == IF l = "plain" THEN <<"SP">> ELSE <<"NL", "NL", "NL", "NL">>
BeforeSystem(l) == IF l = "plain" THEN <<"NL">> ELSE <<"NL", "NL">>
AfterSystem(l) == IF l = "plain" THEN <<>> ELSE <<"NL", "Bye", "SP">>

RenderSystem(k, ms) ==
    IF k = "none" THEN <<>>
    ELSE <<"SO", "NL", "actionable", "COL", "NL">>
         \o Join([i \in 1..Len(ms) |-> RenderMeta(ms[i])], <<>>)
         \o (IF k = "closed" THEN <<"SC">> ELSE <<>>)

RenderResponse(ts, ms, k, l) ==
    Intro(l) \o Join([i \in 1..Len(ts) |-> RenderTag(ts[i])], Sep(l))
    \o BeforeSystem(l) \o RenderSystem(k, ms) \o AfterSystem(l)

---------------------------------------------------------------------------
(* get_response, after the provider call returned raw_response.            *)

XInit ==
    /\ tags \in SeqsUpTo(TagChoices, MaxTags)
    /\ meta \in SeqsUpTo(MetaChoices, MaxMeta)
    /\ sysKind \in {"none", "closed", "open"}
    /\ sysKind = "none" => meta = <<>>
    \* a block that is cut off before [/system] holds at most one sub-header
    /\ sysKind = "open" => Len(meta) <= 1
    /\ layout \in Layouts
    /\ response = RenderResponse(tags, meta, sysKind, layout)
    /\ xpc = "raw"
    /\ items = <<>>
    /\ display = <<>>
    /\ rendered = <<>>
    /\ direct = <<>>
    /\ AQuiet /\ CQuiet /\ HQuiet /\ OQuiet

\* line 322
Parse ==
    /\ xpc = "raw"
    /\ items' = ParseActionableItems(response)
    /\ xpc' = "parsed"
    /\ UNCHANGED <<tags, meta, sysKind, layout, response, display, rendered,
                   direct, avars, cvars, hvars, ovars>>

\* line 326
Format ==
    /\ xpc = "parsed"
    /\ display' = FormatResponse(response, items)
    /\ xpc' = "formatted"
    /\ UNCHANGED <<tags, meta, sysKind, layout, response, items, rendered,
                   direct, avars, cvars, hvars, ovars>>

XNext == Parse \/ Format

\* the supplied items of a direct call: one per complete tag, with the
\* tag's id and text (test_chat_parser.py 46-64)
ItemsOfTags ==
    LET ms == TagMatches(response, 1, FALSE, TRUE)
    IN  [i \in 1..Len(ms) |-> MakeItem(response, ms[i], EmptyDict)]

\* render_chat (chat.py 282-287): the result of get_response is rendered
Render ==
    /\ xpc = "formatted"
    /\ rendered' = RenderMessage(display, items)
    /\ xpc' = "rendered"
    /\ UNCHANGED <<tags, meta, sysKind, layout, response, items, display,
                   direct, avars, cvars, hvars, ovars>>

\* parse_and_render_message called with the raw content and an item for
\* every tag (test_chat_parser.py 90)
RenderDirect ==
    /\ xpc = "raw"
    /\ direct' = RenderMessage(response, ItemsOfTags)
    /\ xpc' = "shown"
    /\ UNCHANGED <<tags, meta, sysKind, layout, response, items, display,
                   rendered, avars, cvars, hvars, ovars>>

MaxRenderMeta == 1

RInit ==
    /\ tags \in SeqsUpTo(TagChoices, MaxTags)
    /\ meta \in SeqsUpTo(MetaChoices, MaxRenderMeta)
    /\ sysKind \in {"none", "closed"}
    /\ sysKind = "none" => meta = <<>>
    /\ layout \in Layouts
    /\ response = RenderResponse(tags, meta, sysKind, layout)
    /\ xpc = "raw"
    /\ items = <<>>
    /\ display = <<>>
    /\ rendered = <<>>
    /\ direct = <<>>
    /\ AQuiet /\ CQuiet /\ HQuiet /\ OQuiet

RNextChat == Parse \/ Format \/ Render \/ RenderDirect

SpecRender == RInit /\ [][RNextChat]_vars

SpecExtract == XInit /\ [][XNext]_vars

\* responses whose [system] block repeats a bracket label: up to MaxDupMeta
\* sub-headers over the two ids, with both fields and a url, with category
\* and year only, with another category and year, or with no line at all
MaxDupTags == 1
MaxDupMeta == 3
DupTagChoices == [id : TagIds, text : {PlainText}, closed : {TRUE}]
DupMetaChoices == [label : TagIds, fields : {"full", "cy", "other", "none"}]

DInit ==
    /\ tags \in SeqsUpTo(DupTagChoices, MaxDupTags)
    /\ meta \in SeqsUpTo(DupMetaChoices, MaxDupMeta)
    /\ sysKind = "closed"
    /\ layout = "plain"
    /\ response = RenderResponse(tags, meta, sysKind, layout)
    /\ xpc = "raw"
    /\ items = <<>>
    /\ display = <<>>
    /\ rendered = <<>>
    /\ direct = <<>>
    /\ AQuiet /\ CQuiet /\ HQuiet /\ OQuiet

SpecDup == DInit /\ [][XNext]_vars

---------------------------------------------------------------------------
(* Properties of the extractor.                                            *)

AllClosed == \A i \in 1..Len(tags) : tags[i].closed
HasCategoryYear(f) == f \in {"cy", "full", "other"}
EntriesFor(id) == {i \in 1..Len(meta) : meta[i].label = id}

\* the response has no complete <actionable id="...">...</actionable>
ZeroTags == TagMatches(response, 1, FALSE, TRUE) = <<>>

\* the response without its [system]...[/system] block, nothing else changed
BlockRemoved ==
    IF sysKind = "closed" THEN RenderResponse(tags, <<>>, "none", layout)
    ELSE response

\* N well-formed tags and a matching metadata block: every tag is closed,
\* the block is closed, and each tag id has sub-headers [ID], all of them
\* followed by category: and year: lines
MatchingBlock ==
    /\ sysKind = "closed"
    /\ AllClosed
    /\ \A i \in 1..Len(tags) :
          /\ EntriesFor(tags[i].id) # {}
          /\ \A j \in EntriesFor(tags[i].id) : HasCategoryYear(meta[j].fields)

\* C1: for a response with N well-formed tags and a [system] block holding
\* for each tag id a sub-header [ID] with category: and year: lines,
\* _parse_actionable_items returns exactly N items, each with a non-empty
\* category and a non-empty year.
C1_NItemsWithCategoryYear ==
    (xpc # "raw" /\ MatchingBlock) =>
        /\ Len(items) = Len(tags)
        /\ \A i \in 1..Len(items) :
              items[i].category # <<>> /\ items[i].year # <<>>

C1_Witness ==
    /\ xpc = "parsed" /\ MatchingBlock
    /\ Len(tags) = 2 /\ tags[1].id # tags[2].id /\ Len(items) = 2

\* C2 as stated: with zero actionable tags the item list is empty and the
\* display string is the input with the [system] block removed and no other
\* character changed.
C2_Original ==
    (xpc = "formatted" /\ ZeroTags) => (items = <<>> /\ display = BlockRemoved)

\* C2 amended: with zero actionable tags the item list is empty and the
\* display string is the input with the [system]...[/system] block removed,
\* then stripped of leading and trailing whitespace, with every run of
\* three or more newlines collapsed to two.
C2_EmptyListCleanedDisplay ==
    (xpc = "formatted" /\ ZeroTags) =>
        /\ items = <<>>
        /\ display = CollapseNewlines(Strip(BlockRemoved))

C2_Witness ==
    /\ xpc = "formatted" /\ ZeroTags /\ sysKind = "closed" /\ meta # <<>>
    /\ layout = "spaced" /\ display # BlockRemoved

\* what the response's author wrote, by field set
TrimmedText(t) == IF t = PaddedText THEN <<"Take", "NL", "AP">> ELSE t
FieldCategory(f) ==
    CASE f \in {"url", "none"} -> <<>>
      [] f = "other" -> <<"Essays">>
      [] OTHER -> <<"Clubs">>
FieldYear(f) ==
    CASE f \in {"url", "none"} -> <<>>
      [] f = "other" -> <<"1", "1th">>
      [] OTHER -> <<"1", "0th">>
FieldUrl(f) == IF f \in {"cy", "other", "none"} THEN None ELSE UrlText

\* item it was made from tag t and the lines of some sub-header [t.id]
ItemOfTag(it, t) ==
    /\ it.id = t.id
    /\ it.text = TrimmedText(t.text)
    /\ \E j \in EntriesFor(t.id) :
          /\ it.category = FieldCategory(meta[j].fields)
          /\ it.year = FieldYear(meta[j].fields)
          /\ it.url = FieldUrl(meta[j].fields)

\* the spec's end-to-end scenario
IsScenario ==
    /\ layout = "plain" /\ sysKind = "closed"
    /\ tags = <<[id |-> <<"1">>, text |-> PlainText, closed |-> TRUE]>>
    /\ meta = <<[label |-> <<"1">>, fields |-> "cy"]>>

ScenarioItems ==
    <<[id |-> <<"1">>, text |-> <<"Join", "SP", "robotics", "SP", "club">>,
       category |-> <<"Clubs">>, year |-> <<"1", "0th">>, url |-> None]>>

\* C8: every returned item corresponds to one tag of the body, in body
\* order: its id and trimmed text are the tag's, its category, year and url
\* are those of a sub-header whose label equals the tag id (url None when no
\* url line is given); the end-to-end scenario yields exactly its one item.
C8_ItemsFollowTagsById ==
    (xpc # "raw" /\ AllClosed) =>
        /\ \E f \in [1..Len(items) -> 1..Len(tags)] :
              /\ \A a, b \in 1..Len(items) : a < b => f[a] < f[b]
              /\ \A a \in 1..Len(items) : ItemOfTag(items[a], tags[f[a]])
        /\ IsScenario => items = ScenarioItems

C8_Witness == xpc = "formatted" /\ IsScenario /\ items = ScenarioItems

\* the sub-headers labelled id, and those of them that list a field
LastOf(S) == CHOOSE i \in S : \A j \in S : j <= i
ListedFor(id) == {i \in EntriesFor(id) : meta[i].fields # "none"}
Duplicated(id) == Cardinality(EntriesFor(id)) >= 2

\* the category, year and url of item it are those of sub-header j
FieldsOf(it, j) ==
    /\ it.category = FieldCategory(meta[j].fields)
    /\ it.year = FieldYear(meta[j].fields)
    /\ it.url = FieldUrl(meta[j].fields)

\* C21 as stated: when the [system] block holds two sub-headers with the
\* same label, a tag with that id gets the category, year and url of the
\* last such sub-header, whatever that sub-header lists.
C21_Original ==
    xpc # "raw" =>
       \A i \in 1..Len(items) :
          Duplicated(items[i].id) =>
             FieldsOf(items[i], LastOf(EntriesFor(items[i].id)))

\* C21 amended: when the [system] block holds two or more sub-headers with
\* the same label, a tag with that id gets the category, year and url of
\* the last such sub-header that lists at least one field, and only those
\* (a field the winner does not list is empty, not inherited); a
\* sub-header without any line is skipped, and when every sub-header of
\* the label is empty the tag yields no item.
C21_LastListedWins ==
    xpc # "raw" =>
       LET kept == SelectSeq(tags, LAMBDA t : ListedFor(t.id) # {})
       IN  /\ Len(items) = Len(kept)
           /\ \A i \in 1..Len(items) :
                 /\ items[i].id = kept[i].id
                 /\ FieldsOf(items[i], LastOf(ListedFor(kept[i].id)))

\* a tag whose label has a full sub-header, then one with category and
\* year only: the item carries no url
C21_Witness ==
    /\ xpc = "parsed" /\ Len(tags) = 1 /\ Len(items) = 1
    /\ Cardinality(ListedFor(tags[1].id)) >= 2
    /\ meta[1].fields = "full" /\ meta[1].label = tags[1].id
    /\ meta[LastOf(ListedFor(tags[1].id))].fields = "cy"
    /\ items[1].url = None /\ items[1].category = <<"Clubs">>

\* C9: the display string holds no <actionable ...>...</actionable> tag and
\* no [system]...[/system] block, whatever the ids, metadata or tag text.
C9_DisplayHasNoMarkup ==
    xpc = "formatted" =>
        /\ TagMatches(display, 1, FALSE, TRUE) = <<>>
        /\ ~SystemSearch(display, 1).ok

\* markup that is never closed
Malformed == sysKind = "open" \/ \E i \in 1..Len(tags) : ~tags[i].closed

PlanBlocks(pieces) == SelectSeq(pieces, LAMBDA x : x.kind = "plan")
PieceTexts(pieces) == [i \in 1..Len(pieces) |-> pieces[i].text]
HasMarker(text) == \E i \in 1..Len(text) : text[i] \in {"OA", "CA"}

\* C15: for content whose k tags all have an item among the supplied
\* items, parse_and_render_message makes k Add-to-Plan blocks, one per tag
\* in order of appearance, whatever the id strings are.
C15_OnePlanBlockPerTag ==
    (xpc = "shown" /\ AllClosed) =>
        /\ Len(PlanBlocks(direct)) = Len(tags)
        /\ \A i \in 1..Len(PlanBlocks(direct)) :
              PlanBlocks(direct)[i].id = tags[i].id

\* C16: what parse_and_render_message renders is, in order, every
\* non-blank text segment outside the tags and the inner text of each tag,
\* and no rendered piece holds a raw <actionable or </actionable> marker.
C16_NoRawMarkerRendered ==
    (xpc = "shown" /\ AllClosed) =>
        /\ PieceTexts(direct) =
              PieceTexts(RenderMessageAnyId(response, ItemsOfTags))
        /\ \A i \in 1..Len(direct) : ~HasMarker(direct[i].text)

\* C19: rendering the result of get_response offers an Add-to-Plan block
\* for every item of the result.
C19_EveryItemOffered ==
    xpc = "rendered" =>
        \A i \in 1..Len(items) :
            \E j \in 1..Len(rendered) :
                rendered[j].kind = "plan" /\ rendered[j].id = items[i].id

---------------------------------------------------------------------------
(* The provider call wrappers: BaseAgent._make_api_call (base.py 57-82),   *)
(* PrimaryCounselorAgent._make_api_call (primary_counselor.py 239-311) and *)
(* CounselorAgent._make_api_call (counselor.py 34-55).  One agent object   *)
(* lives in the session (chat.py 31-34) and is invoked once per message;   *)
(* each provider call is one step and either returns text or raises.       *)

\* api_config.get("retry_attempts", 3)
RetryAttempts == 3
\* CounselorAgent.MAX_RETRIES
MAX_RETRIES == 3
MaxInvocations == 2

\* self.fallback_client and self.config.fallback (base.py 69),
\* self.config.get('fallback') (primary_counselor.py 301): the fallback
\* configuration itself names no fallback
HasFallback(cfg, cfgd) == cfg = "primary" /\ cfgd

\* _call_openai and _call_anthropic both go through self.primary_client
\* (base.py 96, 105): a fallback of another vendor is asked for on a client
\* that has no such endpoint, and the call raises.  PrimaryCounselorAgent
\* creates a client per provider (lines 247-262).
ClientServes(ag, cfg, same) == ag # "base" \/ cfg = "primary" \/ same

\* what one provider call can do: TRUE returns text, FALSE raises
CallResults(ag, cfg, same) ==
    IF ClientServes(ag, cfg, same) THEN BOOLEAN ELSE {FALSE}

\* the test of base.py 68 one too high
IsLastAttemptOffByOne(att) == att = RetryAttempts

\* if attempt == retry_attempts - 1 (base.py 68)
IsLastAttempt(att) == att = RetryAttempts - 1

\* base.py 66-82, after a provider call raised in the loop's pass att:
\*   "retry"    the loop goes on with the next attempt
\*   "none"     the loop ends without return or raise: the call returns None
\*   "fallback" self.config is switched and _make_api_call recurses
\*   "raise"    AgentError (a ValidationError of ModelConfig(**fallback) is
\*              caught at line 78 and ends in the raise of line 82 as well)
BaseAfterFailure(att, cfg, cfgd, valid) ==
    IF ~IsLastAttempt(att)
    THEN (IF att + 1 < RetryAttempts THEN "retry" ELSE "none")
    ELSE IF HasFallback(cfg, cfgd) /\ valid THEN "fallback" ELSE "raise"

\* self.config after the call at depth d ended: base.py restores it only
\* on the path of lines 75-77, when the recursive call returned
BaseConfigAfter(d, cfg, returned) ==
    IF d = 1 /\ returned THEN "primary" ELSE cfg

\* primary_counselor.py 309-310: finally restores it on every path
PrimaryConfigAfter(d, cfg, returned) == IF d = 1 THEN "primary" ELSE cfg

\* primary_counselor.py 299-311, after the one provider call raised
PrimaryAfterFailure(cfg, cfgd) ==
    IF HasFallback(cfg, cfgd) THEN "fallback" ELSE "raise"

\* counselor.py 49-55, retry_count already incremented
CounselorAfterFailure(retry_count) ==
    IF retry_count >= MAX_RETRIES THEN "raise" ELSE "retry"

AInit ==
    /\ agent \in {"base", "primary", "counselor"}
    /\ fallbackCfgd \in BOOLEAN
    /\ fallbackValid \in BOOLEAN
    /\ sameVendor \in BOOLEAN
    \* PrimaryCounselorAgent's config always names a fallback (lines 66-69,
    \* 101-104) and is a plain dict; CounselorAgent has none
    /\ agent = "primary" => (fallbackCfgd /\ fallbackValid /\ ~sameVendor)
    /\ agent = "counselor" => (~fallbackCfgd /\ ~fallbackValid /\ ~sameVendor)
    /\ ~fallbackCfgd => (~fallbackValid /\ ~sameVendor)
    /\ config = "primary" /\ apc = "idle" /\ depth = 0 /\ attempt = 0
    /\ calls = <<>> /\ outcome = "none" /\ origin = "none" /\ swaps = 0
    /\ entryConfig = "primary" /\ invocations = 0
    /\ routing = NotRouted
    /\ XQuiet /\ CQuiet /\ HQuiet /\ OQuiet

AStatic == <<agent, fallbackCfgd, fallbackValid, sameVendor>>

\* a caller enters _make_api_call
Invoke ==
    /\ apc = "idle"
    /\ invocations < MaxInvocations
    /\ apc' = "try" /\ depth' = 0 /\ attempt' = 0 /\ calls' = <<>>
    /\ outcome' = "none" /\ origin' = "none" /\ swaps' = 0
    /\ entryConfig' = config
    /\ invocations' = invocations + 1
    /\ UNCHANGED <<AStatic, config, routing, xvars, cvars, hvars, ovars>>

\* the call ends: it returns text, returns None or raises
Finish(how, cfgAfter) ==
    /\ apc' = "idle"
    /\ outcome' = how
    /\ origin' = IF how = "text" THEN config ELSE "none"
    /\ config' = cfgAfter
    /\ UNCHANGED <<depth, attempt, swaps>>

\* the configuration is switched and the call recurses (base.py 73-75,
\* primary_counselor.py 303-306)
Recurse ==
    /\ config' = "fallback" /\ depth' = 1 /\ attempt' = 0
    /\ swaps' = swaps + 1
    /\ UNCHANGED <<apc, outcome, origin>>

\* one pass of the loop of BaseAgent._make_api_call
BaseAttempt ==
    /\ agent = "base" /\ apc = "try"
    /\ \E ok \in CallResults(agent, config, sameVendor) :
          /\ calls' = Append(calls, [cfg |-> config, ok |-> ok])
          /\ IF ok THEN Finish("text", BaseConfigAfter(depth, config, TRUE))
             ELSE LET next == BaseAfterFailure(attempt, config, fallbackCfgd,
                                               fallbackValid)
                  IN  CASE next = "retry" ->
                             /\ attempt' = attempt + 1
                             /\ UNCHANGED <<config, apc, depth, outcome, origin, swaps>>
                        [] next = "fallback" -> Recurse
                        [] next = "none" ->
                             Finish("None", BaseConfigAfter(depth, config, TRUE))
                        [] OTHER ->
                             Finish("AgentError", BaseConfigAfter(depth, config, FALSE))
    /\ UNCHANGED <<AStatic, entryConfig, invocations, routing, xvars, cvars, hvars, ovars>>

\* PrimaryCounselorAgent._make_api_call: one call, then the fallback
PrimaryAttempt ==
    /\ agent = "primary" /\ apc = "try"
    /\ \E ok \in CallResults(agent, config, sameVendor) :
          /\ calls' = Append(calls, [cfg |-> config, ok |-> ok])
          /\ IF ok THEN Finish("text", PrimaryConfigAfter(depth, config, TRUE))
             ELSE IF PrimaryAfterFailure(config, fallbackCfgd) = "fallback"
                  THEN Recurse
                  ELSE Finish("AgentError", PrimaryConfigAfter(depth, config, FALSE))
    /\ UNCHANGED <<AStatic, entryConfig, invocations, routing, xvars, cvars, hvars, ovars>>

\* one pass of the loop of CounselorAgent._make_api_call
CounselorAttempt ==
    /\ agent = "counselor" /\ apc = "try"
    /\ \E ok \in CallResults(agent, config, sameVendor) :
          /\ calls' = Append(calls, [cfg |-> config, ok |-> ok])
          /\ IF ok THEN Finish("text", config)
             ELSE IF CounselorAfterFailure(attempt + 1) = "retry"
                  THEN /\ attempt' = attempt + 1
                       /\ UNCHANGED <<config, apc, depth, outcome, origin, swaps>>
                  ELSE Finish("APIError", config)
    /\ UNCHANGED <<AStatic, entryConfig, invocations, routing, xvars, cvars, hvars, ovars>>

\* the parameters a call of _make_api_call can bind: BaseAgent's takes
\* response_format (base.py 57), CounselorAgent's takes temperature and
\* response_format (counselor.py 34), PrimaryCounselorAgent's override
\* takes messages alone (primary_counselor.py 239)
MakeApiCallParams(ag) ==
    CASE ag = "primary" -> {"messages"}
      [] ag = "base" -> {"messages", "response_format"}
      [] OTHER -> {"messages", "temperature", "response_format"}

\* a call with an argument the callee has no parameter for raises TypeError
CallBinds(ag, args) == args \subseteq MakeApiCallParams(ag)

\* what the provider would answer to the classification prompt:
\*   "json" a decodable decision, "text" text that json.loads rejects,
\*   "raise" the primary and the fallback provider both raise
RoutingAnswers == {"json", "text", "raise"}

\* PrimaryCounselorAgent.route_query (primary_counselor.py 366-399): the
\* call self._make_api_call([...], response_format={...}) and json.loads,
\* every exception turned into the no-routing result
RouteQuery ==
    /\ agent = "primary" /\ apc = "idle"
    /\ \E llm \in RoutingAnswers :
          routing' =
              IF ~CallBinds(agent, {"messages", "response_format"})
              THEN \* TypeError before any provider call
                   [asked |-> TRUE, llm |-> llm, result |-> "no_routing",
                    providerCalls |-> 0]
              ELSE [asked |-> TRUE, llm |-> llm,
                    result |-> IF llm = "json" THEN "decision"
                               ELSE "no_routing",
                    providerCalls |-> IF llm = "raise" THEN 2 ELSE 1]
    /\ UNCHANGED <<AStatic, config, apc, depth, attempt, calls, outcome,
                   origin, swaps, entryConfig, invocations, xvars, cvars, hvars, ovars>>

ANext ==
    Invoke \/ BaseAttempt \/ PrimaryAttempt \/ CounselorAttempt \/ RouteQuery

SpecAgent == AInit /\ [][ANext]_vars

\* the invocation has ended
Done == apc = "idle" /\ invocations >= 1

CallsUnder(cfg) == SelectSeq(calls, LAMBDA c : c.cfg = cfg)
AllFailed(cs) == \A i \in 1..Len(cs) : ~cs[i].ok

\* C5: in BaseAgent._make_api_call, when every call to the primary provider
\* raised and a fallback is configured, the configuration was switched to
\* the fallback exactly once, no call under the fallback configuration came
\* before the retry_attempts failed primary calls, and a returned text is
\* the text of a call under the fallback configuration.
C5_OneFallbackAfterBudget ==
    (agent = "base" /\ Done /\ entryConfig = "primary" /\ fallbackCfgd
        /\ AllFailed(CallsUnder("primary"))) =>
        /\ swaps = 1
        /\ \A i \in 1..Len(calls) :
              calls[i].cfg = "fallback" => i > RetryAttempts
        /\ outcome = "text" => origin = "fallback"

\* C6: when every provider call of an invocation of BaseAgent's or
\* PrimaryCounselorAgent's _make_api_call failed, the invocation ends by
\* raising AgentError (never by returning None, never with another
\* exception), and no invocation makes more than 2 * retry_attempts calls.
C6_TotalFailureRaisesAgentError ==
    agent \in {"base", "primary"} =>
        /\ Len(calls) <= 2 * RetryAttempts
        /\ (Done /\ AllFailed(calls)) => outcome = "AgentError"

\* the whole ladder was walked: retry_attempts failed calls under each of
\* the two configurations, then AgentError
C6_Witness ==
    /\ agent = "base" /\ Done /\ AllFailed(calls)
    /\ Len(CallsUnder("primary")) = RetryAttempts
    /\ Len(CallsUnder("fallback")) = RetryAttempts
    /\ outcome = "AgentError"

\* C7: in BaseAgent and CounselorAgent the primary configuration is called
\* at most retry_attempts / MAX_RETRIES times per invocation, a successful
\* call is the invocation's last call, and a call under the fallback
\* configuration comes only after retry_attempts failed primary calls of
\* the same invocation.
C7_FallbackOnlyAfterBudget ==
    agent \in {"base", "counselor"} =>
        /\ Len(CallsUnder("primary")) <=
              (IF agent = "base" THEN RetryAttempts ELSE MAX_RETRIES)
        /\ \A i \in 1..Len(calls) : calls[i].ok => i = Len(calls)
        /\ \A i \in 1..Len(calls) :
              calls[i].cfg = "fallback" =>
                  /\ i > RetryAttempts
                  /\ \A j \in 1..RetryAttempts :
                        calls[j].cfg = "primary" /\ ~calls[j].ok

\* C11: route_query never raises; when the provider answers the
\* classification prompt with decodable JSON it has issued one provider
\* call and returns the decoded decision, and otherwise it returns the
\* no-routing result.
C11_RoutingDecisionReturned ==
    routing.asked =>
        /\ routing.result \in {"decision", "no_routing"}
        /\ routing.llm = "json" =>
              (routing.result = "decision" /\ routing.providerCalls = 1)
        /\ routing.llm # "json" => routing.result = "no_routing"

\* C20: when an invocation of BaseAgent's or PrimaryCounselorAgent's
\* _make_api_call has ended, by return or by raise, self.config is the
\* configuration the invocation began with.
C20_ConfigRestored ==
    (agent \in {"base", "primary"} /\ Done) => config = entryConfig

---------------------------------------------------------------------------
(* The college-matches cache: render_college_matches and                   *)
(* generate_recommendations (components/college_matches.py), the profiles  *)
(* row written by User.update_profile (models/user.py) and the table       *)
(* college_matches (models/database.py 114-120).  One user; the clock      *)
(* counts hours.                                                           *)

TickHours == 12
MaxClock == 36
MaxRows == 2

Gpas == {"3.5", "3.9"}

\* what counselor.generate_college_matches can do (counselor.py 92-140):
\*   "ok"         returns a JSON object with a 'colleges' key
\*   "nocolleges" returns JSON of another shape
\*   "fail"       raises APIError (provider failure or undecodable text)
LlmResults == {"ok", "nocolleges", "fail"}

\* The connection (database.py 10-19: one Database object, one psycopg2
\* connection for every session of the process; autocommit is off).  A
\* statement runs in the connection's open transaction and conn.commit()
\* ends it; execute and execute_one commit after every statement that is
\* not a SELECT (lines 166-193).  conn.no numbers the transactions that
\* wrote college_matches rows, conn.dirty says that the open one has.
CommitConn(c) ==
    IF c.dirty THEN [no |-> c.no + 1, dirty |-> FALSE] ELSE c

\* INSERT INTO college_matches (user_id, matches): id from the sequence,
\* updated_at DEFAULT CURRENT_TIMESTAMP, which is the start time of the
\* transaction: t is the clock in hours, txn the transaction, and two rows
\* have the same updated_at exactly when their txn is the same
InsertRow(rows, id, t, prof, ok, txn) ==
    Append(rows, [doc |-> id, updated_at |-> t, profileAtGen |-> prof,
                  valid |-> ok, txn |-> txn])

\* execute_one returns None when no row matches: the record with id 0,
\* an id the sequence never gives out
NoRecord ==
    [doc |-> 0, updated_at |-> 0, profileAtGen |-> "none", valid |-> FALSE,
     txn |-> 0]

\* SELECT matches, updated_at ... ORDER BY updated_at DESC LIMIT 1: a row
\* than which none is newer; among rows of one timestamp any
LatestRows(rows) ==
    IF rows = <<>> THEN {NoRecord}
    ELSE {rows[j] : j \in {i \in 1..Len(rows) :
                             \A k \in 1..Len(rows) : rows[k].txn <= rows[i].txn}}

\* if not cached_record or force_refresh (line 243)
NeedsGeneration(cached_record, force_refresh) ==
    cached_record = NoRecord \/ force_refresh

CInit == CQuiet /\ XQuiet /\ AQuiet /\ HQuiet /\ OQuiet

\* time passes
Tick ==
    /\ now + TickHours <= MaxClock
    /\ now' = now + TickHours
    /\ UNCHANGED <<profile, college_matches, nextDoc, lastFetch, conn, req,
                   xvars, avars, hvars, ovars>>

\* User.update_profile: the upsert of the profiles row
UpdateProfile ==
    /\ \E g \in Gpas : profile' = g
    /\ conn' = CommitConn(conn)
    /\ UNCHANGED <<now, college_matches, nextDoc, lastFetch, req, xvars, avars, hvars, ovars>>

\* render_college_matches, the tab "College Matches" (lines 203-331)
Fetch ==
    /\ \E force_refresh \in BOOLEAN, llm \in LlmResults,
          stored \in LatestRows(college_matches) :
           LET cached_record == IF force_refresh THEN NoRecord ELSE stored
               seen == [kind |-> "render", forced |-> force_refresh,
                        hadCache |-> stored # NoRecord,
                        age |-> IF stored = NoRecord THEN 0
                                ELSE now - stored.updated_at,
                        profileAtGen |-> IF stored = NoRecord THEN "none"
                                         ELSE stored.profileAtGen,
                        profileNow |-> profile, llmCalled |-> FALSE,
                        served |-> "none", doc |-> 0]
           IN  IF profile = "none"
               THEN \* "Please complete your profile" (lines 214-216)
                    /\ lastFetch' = [seen EXCEPT !.served = "warning"]
                    /\ UNCHANGED <<college_matches, nextDoc, conn>>
               ELSE IF NeedsGeneration(cached_record, force_refresh)
               THEN /\ Len(college_matches) < MaxRows
                    /\ IF llm = "ok"
                       THEN /\ college_matches' =
                                  InsertRow(college_matches, nextDoc, now,
                                            profile, TRUE, conn.no)
                            /\ nextDoc' = nextDoc + 1
                            /\ conn' = CommitConn([conn EXCEPT !.dirty = TRUE])
                            /\ lastFetch' = [seen EXCEPT !.llmCalled = TRUE,
                                                         !.served = "new",
                                                         !.doc = nextDoc]
                       ELSE \* APIError (lines 247-249, 259-264), nothing stored
                            /\ lastFetch' = [seen EXCEPT !.llmCalled = TRUE,
                                                         !.served = "error"]
                            /\ UNCHANGED <<college_matches, nextDoc, conn>>
               ELSE /\ lastFetch' =
                           IF cached_record.valid
                           THEN [seen EXCEPT !.served = "cached",
                                             !.doc = cached_record.doc]
                           ELSE \* DatabaseError (lines 276-281)
                                [seen EXCEPT !.served = "error"]
                    /\ UNCHANGED <<college_matches, nextDoc, conn>>
    /\ UNCHANGED <<profile, now, req, xvars, avars, hvars, ovars>>

\* the body of generate_recommendations (lines 172-201): whatever decodes
\* as JSON is stored
StoreRecommendations ==
    /\ Len(college_matches) < MaxRows
    /\ \E llm \in LlmResults :
          IF llm = "fail"
          THEN UNCHANGED <<college_matches, nextDoc, conn>>
          ELSE /\ college_matches' =
                     InsertRow(college_matches, nextDoc, now, profile,
                               llm = "ok", conn.no)
               /\ nextDoc' = nextDoc + 1
               /\ conn' = CommitConn([conn EXCEPT !.dirty = TRUE])
    /\ UNCHANGED <<profile, now, lastFetch, req>>

\* generate_recommendations, the walkthrough's last step
GenerateRecommendations ==
    /\ StoreRecommendations
    /\ UNCHANGED <<xvars, avars, hvars, ovars>>

CNext == Tick \/ UpdateProfile \/ Fetch \/ GenerateRecommendations

SpecCache == CInit /\ [][CNext]_vars

\* C26: every stored row of college_matches holds a JSON object with a
\* 'colleges' key, whichever writer stored it, and a non-forced fetch that
\* finds a stored record never ends with the invalid-cached-structure
\* error.
C26_StoredDocumentsValid ==
    /\ \A i \in 1..Len(college_matches) : college_matches[i].valid
    /\ (lastFetch.kind = "render" /\ lastFetch.profileNow # "none"
           /\ ~lastFetch.forced /\ lastFetch.hadCache) =>
          lastFetch.served # "error"

\* C3: a non-forced fetch that finds a stored document whose updated_at is
\* more than 24 hours in the past calls generate_college_matches, whatever
\* the profile.
C3_StaleDocumentRegenerated ==
    (lastFetch.kind = "render" /\ lastFetch.profileNow # "none"
        /\ ~lastFetch.forced /\ lastFetch.hadCache /\ lastFetch.age > 24) =>
        lastFetch.llmCalled

\* C4: a fetch that finds a stored document generated for a profile other
\* than the present one calls generate_college_matches and does not serve
\* the stored document, whatever the document's age.
C4_ChangedProfileRegenerated ==
    (lastFetch.kind = "render" /\ lastFetch.profileNow # "none"
        /\ lastFetch.hadCache /\ lastFetch.profileAtGen \in Gpas
        /\ lastFetch.profileAtGen # lastFetch.profileNow) =>
        /\ lastFetch.llmCalled
        /\ lastFetch.served # "cached"

\* C12: a non-forced fetch that finds a stored document less than 24 hours
\* old, generated for the present profile, serves that document, calls no
\* LLM and leaves college_matches as it is.
C12_FreshCacheServed ==
    [][(/\ lastFetch' # lastFetch
        /\ lastFetch'.profileNow # "none" /\ ~lastFetch'.forced
        /\ lastFetch'.hadCache /\ lastFetch'.age < 24
        /\ lastFetch'.profileAtGen = lastFetch'.profileNow) =>
           /\ lastFetch'.served = "cached"
           /\ lastFetch'.doc = college_matches[Len(college_matches)].doc
           /\ ~lastFetch'.llmCalled
           /\ college_matches' = college_matches]_vars

\* C13: college_matches never holds more than one document of the user.
C13_OneDocumentPerUser == Len(college_matches) <= 1

---------------------------------------------------------------------------
(* Refresh requests of the same user from several sessions.  The sessions  *)
(* are threads of one process and share the Database object; nothing       *)
(* locks, so the steps of render_college_matches interleave: reading the   *)
(* profile, the LLM call, cur.execute(INSERT) and conn.commit().           *)

ReqStatic == <<profile, now, lastFetch, xvars, avars, hvars, ovars>>

\* Refresh Matches pressed (force_refresh, line 229): the profile is read
\* (lines 213-216) and no cached record is looked up (line 233)
ClickRefresh(r) ==
    /\ req[r].pc = "idle"
    /\ req' = [req EXCEPT ![r] =
                  IF profile = "none"
                  THEN [pc |-> "done", prof |-> "none", doc |-> 0]
                  ELSE [pc |-> "llm", prof |-> profile, doc |-> 0]]
    /\ UNCHANGED <<college_matches, nextDoc, conn, ReqStatic>>

\* counselor.generate_college_matches returns or raises (lines 245-266)
LlmReturn(r) ==
    /\ req[r].pc = "llm"
    /\ \E llm \in LlmResults :
          req' = [req EXCEPT ![r].pc = IF llm = "ok" THEN "insert"
                                       ELSE "done"]
    /\ UNCHANGED <<college_matches, nextDoc, conn, ReqStatic>>

\* db.execute, up to cur.execute(query, params) (database.py 169-170)
ExecInsert(r) ==
    /\ req[r].pc = "insert"
    /\ Len(college_matches) < MaxRows
    /\ college_matches' = InsertRow(college_matches, nextDoc, now,
                                    req[r].prof, TRUE, conn.no)
    /\ nextDoc' = nextDoc + 1
    /\ conn' = [conn EXCEPT !.dirty = TRUE]
    /\ req' = [req EXCEPT ![r].pc = "commit", ![r].doc = nextDoc]
    /\ UNCHANGED ReqStatic

\* db.execute, self.conn.commit() (database.py 174)
CommitInsert(r) ==
    /\ req[r].pc = "commit"
    /\ conn' = CommitConn(conn)
    /\ req' = [req EXCEPT ![r].pc = "done"]
    /\ UNCHANGED <<college_matches, nextDoc, ReqStatic>>

RNext ==
    \/ \E r \in Requests : ClickRefresh(r)
    \/ \E r \in Requests : LlmReturn(r)
    \/ \E r \in Requests : ExecInsert(r)
    \/ \E r \in Requests : CommitInsert(r)
    \/ UpdateProfile
    \/ Fetch

SpecRace == CInit /\ [][RNext]_vars

\* every request has regenerated, written its document and ended
RequestsDone == \A r \in Requests : req[r].pc = "done" /\ req[r].doc # 0

\* C14: once the concurrent refresh requests have both written and
\* completed, a non-forced fetch that serves a stored document serves the
\* document that was written last.
C14_LastWriteServed ==
    [][(/\ RequestsDone
        /\ lastFetch' # lastFetch
        /\ ~lastFetch'.forced /\ lastFetch'.served = "cached") =>
           lastFetch'.doc = college_matches[Len(college_matches)].doc]_vars


---------------------------------------------------------------------------
(* Chat sessions and the plan: render_chat's input handler,               *)
(* save_chat_session, new_chat_session and add_to_plan                    *)
(* (components/chat.py).                                                   *)

MaxShown == 4      \* entries of st.session_state.messages
MaxStored == 4     \* rows of messages
MaxSessions == 2   \* rows of chat_sessions
MaxPlan == 2       \* rows of plan_items

Prompts == {"p1", "p2"}
\* a statement sent to the database succeeds or raises DatabaseError
DbOutcomes == {"ok", "error"}

\* a str shown in the chat or returned by the orchestrator
Str(text) == [kind |-> "str", content |-> "none", text |-> text]
\* process_message answers with a dict (content, actionable_items) or a str
Responses(prompt) ==
    {[kind |-> "dict", content |-> <<"re", prompt>>, text |-> "none"],
     Str(<<"re", prompt>>)}

\* response["content"] if isinstance(response, dict) else response
ResponseContent(reply) ==
    IF reply.kind = "dict" THEN reply.content ELSE reply.text

\* prompt[:50] + "..."
Title(prompt) == <<prompt, "...">>

NeedsSessionAlways(session_id) == TRUE

\* if not st.session_state.current_session_id
NeedsSession(session_id) == session_id = 0

\* save_chat_session(prompt, response): `created` and `stored` are what the
\* database does with the two INSERT statements.  A DatabaseError leaves
\* through handle_error, which swallows it.
SaveChatSession(prompt, reply, created, stored) ==
    LET need == NeedsSession(current_session_id)
        made == need /\ created = "ok"
        new_id == Len(chat_sessions) + 1
        session_id == IF made THEN new_id ELSE current_session_id
        reached == ~need \/ made
    IN  /\ chat_sessions' =
              IF made
              THEN Append(chat_sessions,
                          [id |-> new_id, user_id |-> user,
                           title |-> Title(prompt)])
              ELSE chat_sessions
        /\ current_session_id' = session_id
        /\ messages' =
              IF reached /\ stored = "ok"
              THEN messages \o
                   <<[session_id |-> session_id, content |-> prompt,
                      role |-> "user"],
                     [session_id |-> session_id,
                      content |-> ResponseContent(reply),
                      role |-> "assistant"]>>
              ELSE messages

\* init_session_state (auth.py 7-8)
InitSession ==
    /\ user = "absent"
    /\ user' = "none"
    /\ UNCHANGED <<session_messages, current_session_id, chat_sessions,
                   messages, plan_items, lastAdd, xvars, avars, cvars, ovars>>

\* the OAuth callback stores the user (auth.py 64)
Login ==
    /\ user = "none"
    /\ user' = "u1"
    /\ UNCHANGED <<session_messages, current_session_id, chat_sessions,
                   messages, plan_items, lastAdd, xvars, avars, cvars, ovars>>

\* render_chat, the chat input (lines 257-316): the prompt is shown, the
\* orchestrator answers or raises, the answer is shown and, for a logged-in
\* user, saved
ChatInput ==
    /\ Len(session_messages) + 2 <= MaxShown
    /\ Len(messages) + 2 <= MaxStored
    /\ Len(chat_sessions) < MaxSessions
    /\ \E prompt \in Prompts, answered \in BOOLEAN,
          created \in DbOutcomes, stored \in DbOutcomes :
         \E reply \in Responses(prompt) :
            IF ~answered
            THEN /\ session_messages' =
                       Append(session_messages,
                              [role |-> "user", content |-> Str(prompt)])
                 /\ UNCHANGED <<current_session_id, chat_sessions, messages>>
            ELSE /\ session_messages' =
                       session_messages \o
                       <<[role |-> "user", content |-> Str(prompt)],
                         [role |-> "assistant", content |-> reply]>>
                 /\ IF user \notin {"absent", "none"}
                    THEN SaveChatSession(prompt, reply, created, stored)
                    ELSE UNCHANGED <<current_session_id, chat_sessions,
                                     messages>>
    /\ UNCHANGED <<user, plan_items, lastAdd, xvars, avars, cvars, ovars>>

\* render_chat, a quick action button (lines 235-243)
QuickAction ==
    /\ Len(session_messages) < MaxShown
    /\ \E prompt \in Prompts :
         session_messages' =
            Append(session_messages,
                   [role |-> "user", content |-> Str(prompt)])
    /\ UNCHANGED <<user, current_session_id, chat_sessions, messages,
                   plan_items, lastAdd, xvars, avars, cvars, ovars>>

NewChatSession ==
    /\ session_messages' = <<>>
    /\ current_session_id' = 0
    /\ UNCHANGED <<user, chat_sessions, messages, plan_items, lastAdd,
                   xvars, avars, cvars, ovars>>

HInit == HQuiet /\ XQuiet /\ AQuiet /\ CQuiet /\ OQuiet

HNext == InitSession \/ Login \/ ChatInput \/ QuickAction \/ NewChatSession

SpecChat == HInit /\ [][HNext]_vars

IsPrefix(s, t) == Len(s) <= Len(t) /\ SubSeq(t, 1, Len(s)) = s

\* C17: a chat_sessions row is inserted only by a save that finds
\* current_session_id unset, and that save adopts the new row's id; a save
\* that finds it set keeps it; every save that stores anything appends
\* exactly the user message and then the assistant message of this
\* exchange under the current session id; no step changes or removes a
\* row of messages or of chat_sessions.
C17_LazyAppendOnly ==
    [][/\ IsPrefix(messages, messages')
       /\ IsPrefix(chat_sessions, chat_sessions')
       /\ chat_sessions' # chat_sessions =>
            /\ current_session_id = 0
            /\ Len(chat_sessions') = Len(chat_sessions) + 1
            /\ current_session_id' = chat_sessions'[Len(chat_sessions')].id
            /\ \A i \in 1..Len(chat_sessions) :
                  chat_sessions[i].id # current_session_id'
       /\ messages' # messages =>
            LET n == Len(session_messages')
                k == Len(messages)
            IN  /\ current_session_id # 0 =>
                      current_session_id' = current_session_id
                /\ Len(messages') = k + 2
                /\ messages'[k + 1] =
                      [session_id |-> current_session_id',
                       content |-> session_messages'[n - 1].content.text,
                       role |-> "user"]
                /\ messages'[k + 2] =
                      [session_id |-> current_session_id',
                       content |->
                          ResponseContent(session_messages'[n].content),
                       role |-> "assistant"]]_vars

\* two exchanges were saved into one session, then a third into a second
\* session begun with new_chat_session
C17_Witness ==
    /\ Len(chat_sessions) = 1 /\ Len(messages) = 4
    /\ \A i \in 1..4 : messages[i].session_id = 1
    /\ current_session_id = 1

---------------------------------------------------------------------------
(* add_to_plan (components/chat.py 44-144).                                *)

PlanFields == {"text", "category", "year", "url"}
required_fields == <<"text", "category", "year">>

\* the first required field the item lacks, 0 if none
FirstMissing(fields) ==
    LET miss == {i \in 1..Len(required_fields) :
                    required_fields[i] \notin fields}
    IN  IF miss = {} THEN 0
        ELSE CHOOSE i \in miss : \A j \in miss : i <= j

\* the value the item carries under a key; actionable_item.get("url")
ItemGet(fields, key) == IF key \in fields THEN <<key, "value">> ELSE "None"

PlanResult(ok, msg, inserted, readBack) ==
    [ok |-> ok, msg |-> msg, inserted |-> inserted, readBack |-> readBack]

\* what add_to_plan returns and whether its INSERT was committed, given
\* session_state.user, the answer to the users query ("row", "none",
\* "error"), the item's keys and what the database does with the INSERT
\* and with the read-back.  Every exception is caught by one of the three
\* except clauses and turned into (False, message).
AddResult(u, user_check, fields, insert, verification) ==
    IF u \in {"absent", "none"}
    THEN PlanResult(FALSE, "Please log in to add items to your plan",
                    FALSE, FALSE)
    ELSE IF user_check = "error"
    THEN PlanResult(FALSE, "Database operation failed", FALSE, FALSE)
    ELSE IF user_check = "none"
    THEN PlanResult(FALSE, "User not found in database", FALSE, FALSE)
    ELSE IF FirstMissing(fields) # 0
    THEN PlanResult(FALSE,
                    <<"Missing required field",
                      required_fields[FirstMissing(fields)]>>,
                    FALSE, FALSE)
    ELSE IF insert = "error"
    THEN PlanResult(FALSE, "Database error: Database operation failed",
                    FALSE, FALSE)
    ELSE IF verification = "error"
    THEN PlanResult(FALSE, "Database error: Database operation failed",
                    TRUE, FALSE)
    ELSE PlanResult(TRUE, "Added to plan successfully!", TRUE, TRUE)

AddToPlan ==
    /\ Len(plan_items) < MaxPlan
    /\ \E fields \in SUBSET PlanFields,
          user_check \in {"row", "none", "error"},
          insert \in DbOutcomes, verification \in DbOutcomes :
         LET res == AddResult(user, user_check, fields, insert, verification)
         IN  /\ plan_items' =
                   IF res.inserted
                   THEN Append(plan_items,
                               [id |-> Len(plan_items) + 1,
                                user_id |-> user,
                                activity_text |-> ItemGet(fields, "text"),
                                category |-> ItemGet(fields, "category"),
                                grade_year |-> ItemGet(fields, "year"),
                                url |-> ItemGet(fields, "url"),
                                status |-> "pending",
                                metadata |-> "chat_recommendation"])
                   ELSE plan_items
             /\ lastAdd' =
                   [called |-> TRUE, user |-> user,
                    exists |-> user_check = "row", fields |-> fields,
                    ok |-> res.ok, msg |-> res.msg,
                    inserted |-> res.inserted, readBack |-> res.readBack,
                    raised |-> FALSE]
    /\ UNCHANGED <<user, session_messages, current_session_id,
                   chat_sessions, messages, xvars, avars, cvars, ovars>>

PNext == InitSession \/ Login \/ AddToPlan

SpecPlan == HInit /\ [][PNext]_vars

\* C18: add_to_plan inserts a row only for a logged-in user found in the
\* users table and an item carrying text, category and year; the row has
\* status 'pending'; (True, message) is returned only after the inserted
\* row was read back; whenever (False, message) is returned no row was
\* inserted; no exception reaches the caller.
C18_RowOnlyWithSuccess ==
    lastAdd.called =>
       /\ lastAdd.inserted =>
             /\ lastAdd.user = "u1" /\ lastAdd.exists
             /\ {"text", "category", "year"} \subseteq lastAdd.fields
             /\ plan_items[Len(plan_items)].status = "pending"
       /\ lastAdd.ok => (lastAdd.inserted /\ lastAdd.readBack)
       /\ ~lastAdd.ok => ~lastAdd.inserted
       /\ ~lastAdd.raised


---------------------------------------------------------------------------
(* Achievements: initialize_default_achievements, check_progress and       *)
(* _evaluate_requirements (models/achievement.py).                         *)

MaxChecks == 3

Defaults == <<"Profile Pioneer", "Chat Champion", "Goal Getter">>
ProfileFields ==
    {"gpa", "interests", "activities", "target_majors", "target_schools"}

\* the requirements of the three defaults (lines 48-51, 59-61, 69-71)
Requirements(name) ==
    CASE name = "Profile Pioneer" ->
           [key |-> "profile_fields", kind |-> "list", n |-> 0,
            fields |-> ProfileFields]
      [] name = "Chat Champion" ->
           [key |-> "chat_sessions", kind |-> "num", n |-> 5, fields |-> {}]
      [] OTHER ->
           [key |-> "goals_set", kind |-> "num", n |-> 3, fields |-> {}]

\* the snapshots a caller passes: without the required key, or with a
\* value below, at or above a number, or a list with or without a field
Snapshots(name) ==
    LET r == Requirements(name)
    IN  {NoSnapshot} \cup
        (IF r.kind = "num"
         THEN {[present |-> TRUE, num |-> v, fields |-> {}] :
                  v \in {r.n - 1, r.n, r.n + 1}}
         ELSE {[present |-> TRUE, num |-> 0, fields |-> f] :
                  f \in {r.fields, r.fields \ {"gpa"}}})

\* _evaluate_requirements (lines 146-167)
EvaluateRequirements(r, current_state) ==
    IF ~current_state.present THEN FALSE
    ELSE IF r.kind = "num" THEN ~(current_state.num < r.n)
    ELSE \A field \in r.fields : field \in current_state.fields

IsCompletedNever(progress) == FALSE

\* if progress['completed'] (line 124)
IsCompleted(progress) == progress.completed

\* Database.execute turns the driver's error into
\* DatabaseError("Database operation failed") (database.py 177-179)
WrapError(driver_message) == "Database operation failed"

\* "already exists" in str(e) (line 36)
MentionsAlreadyExists(message) ==
    message = "relation \"unique_achievement_name\" already exists"

\* INSERT ... ON CONFLICT (name) DO NOTHING, for the defaults from the
\* k-th on
RECURSIVE InsertDefaults(_, _)
InsertDefaults(rows, k) ==
    IF k > Len(Defaults) THEN rows
    ELSE InsertDefaults(
            IF \E i \in 1..Len(rows) : rows[i] = Defaults[k]
            THEN rows ELSE Append(rows, Defaults[k]),
            k + 1)

\* initialize_default_achievements (lines 23-94), as the dashboard calls it
\* on every render
InitializeDefaultAchievements ==
    /\ IF unique_achievement_name
       THEN LET e == WrapError(
                       "relation \"unique_achievement_name\" already exists")
            IN  IF MentionsAlreadyExists(e)
                THEN /\ achievements' = InsertDefaults(achievements, 1)
                     /\ lastInit' = "ok"
                ELSE /\ achievements' = achievements
                     /\ lastInit' = "DatabaseError"
       ELSE /\ achievements' = InsertDefaults(achievements, 1)
            /\ lastInit' = "ok"
    /\ unique_achievement_name' = TRUE
    /\ UNCHANGED <<achievement, user_achievements, checks, lastCheck,
                   notG>>

\* check_progress(user_id, current_state) (lines 107-144) on a catalogued
\* achievement, with the database answering
CheckProgress ==
    /\ checks < MaxChecks
    /\ \E i \in 1..Len(achievements) : achievements[i] = achievement
    /\ \E user_id \in AUsers, current_state \in Snapshots(achievement) :
         LET progress == user_achievements[user_id]
             is_complete ==
                 EvaluateRequirements(Requirements(achievement), current_state)
             ret == IF ~progress.exists THEN "False"
                    ELSE IF IsCompleted(progress) THEN "None"
                    ELSE IF is_complete THEN "True" ELSE "False"
         IN  /\ user_achievements' =
                   [user_achievements EXCEPT ![user_id] =
                       IF ~progress.exists
                       THEN [exists |-> TRUE, progress |-> current_state,
                             completed |-> FALSE, completed_at |-> 0]
                       ELSE IF ~IsCompleted(progress) /\ is_complete
                       THEN [exists |-> TRUE, progress |-> current_state,
                             completed |-> TRUE, completed_at |-> checks + 1]
                       ELSE progress]
             /\ lastCheck' =
                   [called |-> TRUE, user |-> user_id,
                    state |-> current_state, existed |-> progress.exists,
                    wasCompleted |-> progress.completed, ret |-> ret]
    /\ checks' = checks + 1
    /\ UNCHANGED <<achievement, achievements, unique_achievement_name,
                   lastInit, notG>>

GInit ==
    /\ achievement \in {Defaults[i] : i \in 1..Len(Defaults)}
    /\ achievements = <<>>
    /\ unique_achievement_name = FALSE /\ lastInit = "none"
    /\ user_achievements = [u \in AUsers |-> NoProgress]
    /\ checks = 0 /\ lastCheck = NotChecked
    /\ XQuiet /\ AQuiet /\ CQuiet /\ HQuiet /\ DQuiet /\ KQuiet /\ EQuiet /\ TQuiet /\ WQuiet

GNext == InitializeDefaultAchievements \/ CheckProgress

SpecAchieve == GInit /\ [][GNext]_vars

\* the snapshot satisfies every requirement: a number at least the
\* required one, a list holding every required element, no key missing
Satisfies(name, snapshot) ==
    LET r == Requirements(name)
    IN  /\ snapshot.present
        /\ r.kind = "num" => snapshot.num >= r.n
        /\ r.kind = "list" => r.fields \subseteq snapshot.fields

\* C22: a check_progress call for a user who has not completed the
\* achievement returns True and records the completion when the snapshot
\* satisfies every requirement, and returns False and records no completion
\* when it does not.
C22_MetRequirementsReported ==
    (lastCheck.called /\ ~lastCheck.wasCompleted) =>
        IF Satisfies(achievement, lastCheck.state)
        THEN /\ lastCheck.ret = "True"
             /\ user_achievements[lastCheck.user].completed
        ELSE /\ lastCheck.ret = "False"
             /\ ~user_achievements[lastCheck.user].completed

\* C23: every call of initialize_default_achievements completes without
\* raising and leaves exactly one catalog row per default name.
C23_InitIdempotent ==
    lastInit # "none" =>
        /\ lastInit = "ok"
        /\ Len(achievements) = Len(Defaults)
        /\ \A k \in 1..Len(Defaults) :
              Cardinality({i \in 1..Len(achievements) :
                              achievements[i] = Defaults[k]}) = 1

\* C25: per user, completed turns true only in a check_progress call whose
\* snapshot satisfies the requirements; once it is true, every later call
\* returns None and leaves completed, completed_at and progress as they
\* were; completed never turns false again.
C25_CompletionMonotonic ==
    [][\A u \in AUsers :
          /\ (~user_achievements[u].completed
                 /\ user_achievements'[u].completed) =>
                /\ lastCheck'.user = u
                /\ EvaluateRequirements(Requirements(achievement),
                                        lastCheck'.state)
                /\ lastCheck'.ret = "True"
          /\ user_achievements[u].completed =>
                /\ user_achievements'[u] = user_achievements[u]
                /\ (checks' # checks /\ lastCheck'.user = u) =>
                      lastCheck'.ret = "None"]_vars

\* a completed user was checked again with another satisfying snapshot:
\* None was returned and the stored progress is still the earlier one
C25_Witness ==
    /\ lastCheck.called /\ lastCheck.wasCompleted /\ lastCheck.ret = "None"
    /\ Satisfies(achievement, lastCheck.state)
    /\ user_achievements[lastCheck.user].completed
    /\ user_achievements[lastCheck.user].progress # lastCheck.state
    /\ user_achievements[lastCheck.user].completed_at < checks


---------------------------------------------------------------------------
(* The database wrapper: Database.__new__, _initialize_connection,        *)
(* _ensure_connection, execute and execute_one (models/database.py).       *)

DB_MAX_RETRIES == 3

\* what one pass of the connect loop meets: a connection with its tables,
\* a connection on which create_tables fails, or no connection
ConnectOutcomes == {"ok", "tables_fail", "error"}
\* what the server does with the query
QueryOutcomes == {"ok", "sql_error", "conn_error"}

\* the exception of the probe `SELECT 1` (lines 46-48) on self.conn
ProbeException(c) ==
    CASE c = "ok" -> "none"
      [] c = "none" -> "AttributeError"
      [] OTHER -> "psycopg2.Error"

ProbeCaughtDriverOnly(e) == e = "psycopg2.Error"

\* except (psycopg2.Error, AttributeError) (line 49)
ProbeCaught(e) == e \in {"psycopg2.Error", "AttributeError"}

\* _initialize_connection (lines 21-41) from pass retry_count + 1 on:
\* the connection it leaves in self.conn, the connect attempts made, and
\* the exception it ends with
RECURSIVE InitializeConnection(_, _, _)
InitializeConnection(c, o, retry_count) ==
    LET k == retry_count + 1
    IN  IF o[k] = "ok"
        THEN [conn |-> "ok", attempts |-> k, raised |-> "none"]
        ELSE IF o[k] = "tables_fail"
        THEN [conn |-> "failed_txn", attempts |-> k,
              raised |-> "DatabaseError"]
        ELSE IF k >= DB_MAX_RETRIES
        THEN [conn |-> c, attempts |-> k, raised |-> "DatabaseError"]
        ELSE InitializeConnection(c, o, k)

\* execute / execute_one (lines 166-193): probe, reconnect, query
\* what a call gives back when the query succeeds (lines 171-175, 187-190)
Returned(method, is_select) ==
    IF method = "execute_one" THEN "row"
    ELSE IF is_select THEN "rows" ELSE "empty"

RunQuery(c, o, q, method, is_select) ==
    LET e == ProbeException(c)
        r == IF e = "none"
             THEN [conn |-> c, attempts |-> 0, raised |-> "none"]
             ELSE IF ProbeCaught(e) THEN InitializeConnection(c, o, 0)
             ELSE [conn |-> c, attempts |-> 0, raised |-> e]
    IN  IF r.raised # "none"
        THEN [conn |-> r.conn, attempts |-> r.attempts, ran |-> FALSE,
              committed |-> FALSE,
              outcome |-> IF r.raised = "psycopg2.Error"
                          THEN "DatabaseError" ELSE r.raised]
        ELSE [conn |-> CASE q = "ok" -> "ok"
                         [] q = "sql_error" -> "failed_txn"
                         [] OTHER -> "lost",
              attempts |-> r.attempts, ran |-> TRUE,
              committed |-> q = "ok" /\ ~is_select,
              outcome |-> IF q = "ok" THEN Returned(method, is_select)
                          ELSE "DatabaseError"]

Execute ==
    /\ \E o \in [1..DB_MAX_RETRIES -> ConnectOutcomes], q \in QueryOutcomes,
          method \in {"execute", "execute_one"}, is_select \in BOOLEAN :
         LET res == RunQuery(dbconn, o, q, method, is_select)
         IN  /\ dbconn' = res.conn
             /\ lastCall' =
                   [called |-> TRUE, before |-> dbconn, method |-> method,
                    is_select |-> is_select, committed |-> res.committed,
                    attempts |-> res.attempts, ran |-> res.ran,
                    reconnected |-> res.attempts > 0 /\ res.ran,
                    outcome |-> res.outcome]
    /\ UNCHANGED notD

\* the server or the network drops the connection
ConnectionLost ==
    /\ dbconn = "ok"
    /\ dbconn' = "lost"
    /\ UNCHANGED <<lastCall, notD>>

\* after Database(): connected, or the first _initialize_connection failed
\* and the singleton is left without self.conn
DbInit ==
    /\ dbconn \in {"ok", "none"}
    /\ lastCall = NotCalled
    /\ XQuiet /\ AQuiet /\ CQuiet /\ HQuiet /\ GQuiet /\ KQuiet /\ EQuiet /\ TQuiet /\ WQuiet

DbNext == Execute \/ ConnectionLost

SpecDb == DbInit /\ [][DbNext]_vars

\* C24: each call probes the shared connection; when the probe fails
\* (connection lost, never established, or in a failed transaction) it
\* opens a new connection with at least one and at most MAX_RETRIES
\* attempts before the query runs, and otherwise makes none; the query
\* runs only on a connection that passed the probe or was just opened;
\* the caller gets a result or DatabaseError, nothing else.
C24_ProbeReconnectWrap ==
    lastCall.called =>
        /\ lastCall.before = "ok" => lastCall.attempts = 0 /\ lastCall.ran
        /\ lastCall.before # "ok" =>
              /\ lastCall.attempts \in 1..DB_MAX_RETRIES
              /\ lastCall.ran => lastCall.reconnected
        /\ lastCall.outcome \in
              {Returned(lastCall.method, lastCall.is_select), "DatabaseError"}
        /\ ~lastCall.ran => lastCall.outcome = "DatabaseError"

\* a call on a singleton without self.conn reconnected on its third
\* attempt and ran the query
C24_Witness ==
    /\ lastCall.called /\ lastCall.before = "none"
    /\ lastCall.attempts = DB_MAX_RETRIES /\ lastCall.ran
    /\ lastCall.outcome = "row" /\ dbconn = "ok"


---------------------------------------------------------------------------
(* Two callers inside PrimaryCounselorAgent._make_api_call on one agent    *)
(* (primary_counselor.py 239-311), step by step at each read and write of  *)
(* self.config.                                                            *)

\* self.config.get('fallback'): the fallback dict carries no fallback
\* of its own (lines 66-69, 101-104)
HasFallbackKey(cfg) == cfg = "primary"

\* a caller enters _make_api_call
Enter(t) ==
    /\ thr[t].pc = "idle"
    /\ thr' = [thr EXCEPT ![t].pc = "read"]
    /\ UNCHANGED <<kconfig, notK>>

\* provider = self.config.get('provider', 'openai') (line 244)
ReadConfig(t) ==
    /\ thr[t].pc = "read"
    /\ thr' = [thr EXCEPT ![t].pc = "call", ![t].used = kconfig,
                          ![t].first = IF thr[t].first = "none"
                                       THEN kconfig ELSE @]
    /\ UNCHANGED <<kconfig, notK>>

\* the provider call returns (line 297) or raises (line 299)
ProviderCall(t) ==
    /\ thr[t].pc = "call"
    /\ \E ok \in BOOLEAN :
         thr' = [thr EXCEPT ![t].pc = IF ok THEN "unwind" ELSE "check",
                            ![t].outcome = IF ok THEN "text" ELSE @]
    /\ UNCHANGED <<kconfig, notK>>

\* if self.config.get('fallback') (line 301), else raise AgentError (311)
CheckFallback(t) ==
    /\ thr[t].pc = "check"
    /\ thr' = IF HasFallbackKey(kconfig) /\ thr[t].level < MaxLevel
              THEN [thr EXCEPT ![t].pc = "save"]
              ELSE [thr EXCEPT ![t].pc = "unwind", ![t].outcome = "AgentError"]
    /\ UNCHANGED <<kconfig, notK>>

\* old_config = self.config.copy() (line 303)
SaveConfig(t) ==
    /\ thr[t].pc = "save"
    /\ thr' = [thr EXCEPT ![t].pc = "swap", ![t].old[thr[t].level] = kconfig]
    /\ UNCHANGED <<kconfig, notK>>

\* self.config = self.config['fallback'] (line 304): KeyError when
\* self.config is by now the fallback dict
SwapConfig(t) ==
    /\ thr[t].pc = "swap"
    /\ IF HasFallbackKey(kconfig)
       THEN /\ kconfig' = "fallback"
            /\ thr' = [thr EXCEPT ![t].pc = "read", ![t].level = @ + 1]
       ELSE /\ kconfig' = kconfig
            /\ thr' = [thr EXCEPT ![t].pc = "unwind", ![t].outcome = "KeyError"]
    /\ UNCHANGED notK

\* the call of this level ended: the caller's finally restores
\* self.config = old_config (line 310), level by level
Unwind(t) ==
    /\ thr[t].pc = "unwind"
    /\ IF thr[t].level = 0
       THEN /\ thr' = [thr EXCEPT ![t].pc = "done"]
            /\ kconfig' = kconfig
       ELSE /\ kconfig' = thr[t].old[thr[t].level - 1]
            /\ thr' = [thr EXCEPT ![t].level = @ - 1]
    /\ UNCHANGED notK

KInit ==
    /\ kconfig = "primary"
    /\ thr = [t \in Callers |-> Idle]
    /\ XQuiet /\ AQuiet /\ CQuiet /\ HQuiet /\ GQuiet /\ DQuiet /\ EQuiet /\ TQuiet /\ WQuiet

KNext ==
    \E t \in Callers :
       \/ Enter(t) \/ ReadConfig(t) \/ ProviderCall(t) \/ CheckFallback(t)
       \/ SaveConfig(t) \/ SwapConfig(t) \/ Unwind(t)

SpecConcurrent == KInit /\ [][KNext]_vars

\* C27: with two concurrent calls on one agent, the first attempt of each
\* call is made with the primary configuration, and once both calls have
\* finished self.config is the primary configuration.
C27_ConcurrentCallsIsolated ==
    /\ \A t \in Callers : thr[t].first \in {"none", "primary"}
    /\ (\A t \in Callers : thr[t].pc = "done") => kconfig = "primary"


---------------------------------------------------------------------------
(* The college explorer list (college_explorer.py): one run of             *)
(* render_college_explorer per interaction, with the widgets' values.      *)

CatalogSize == 12      \* rows of the institutions table
MaxFavorites == 2      \* favourites a user keeps at once
PageSize == 10         \* LIMIT 10 OFFSET page_number * 10

Institutions == 1..CatalogSize
AllStates == {"CA", "NY"}
AllTypes == {"Public", "Private Not-for-Profit"}
SearchTerms == {"", "uni", "tech"}

\* the columns of an institutions row the filters look at
StateOf(i) == IF i % 4 = 0 THEN "NY" ELSE "CA"
TypeOf(i) == IF i % 2 = 0 THEN "Public" ELSE "Private Not-for-Profit"
NameLike(i, name) ==
    CASE name = "uni" -> i < CatalogSize
      [] name = "tech" -> i <= 2
      [] OTHER -> TRUE

\* the WHERE clause: a filter that is empty or None is left out
Matching(name, states, types) ==
    {i \in Institutions :
        /\ (name # "" => NameLike(i, name))
        /\ (states # {} => StateOf(i) \in states)
        /\ (types # {} => TypeOf(i) \in types)}

\* SELECT COUNT(*) with the same filters
TotalCount(name, states, types) == Cardinality(Matching(name, states, types))

\* ORDER BY institution_name LIMIT 10 OFFSET page * 10
PageRows(name, states, types, page) ==
    LET M == Matching(name, states, types)
        rank(i) == Cardinality({j \in M : j < i})
    IN {i \in M : rank(i) \in (page * PageSize)..(page * PageSize + PageSize - 1)}

\* what the run shows for the current widget values
institutions == PageRows(search_term, selected_states, institution_types, page_number)
total_count == TotalCount(search_term, selected_states, institution_types)
\* the pagination row is reached only when the page has rows
ControlsShown == institutions # {}

\* the text input differs from search_term: it is stored and the page reset
SearchChange ==
    \E name \in SearchTerms \ {search_term} :
       /\ search_term' = name
       /\ page_number' = 0
       /\ UNCHANGED <<selected_states, institution_types, favorites, notE>>

\* the state multiselect changes: the run goes on with the stored page
StatesChange ==
    \E states \in (SUBSET AllStates) \ {selected_states} :
       /\ selected_states' = states
       /\ UNCHANGED <<page_number, search_term, institution_types, favorites, notE>>

\* the type multiselect changes
TypesChange ==
    \E types \in (SUBSET AllTypes) \ {institution_types} :
       /\ institution_types' = types
       /\ UNCHANGED <<page_number, search_term, selected_states, favorites, notE>>

\* the heart button of a listed row: toggle_favorite, then rerun
ToggleFavorite ==
    \E i \in institutions :
       /\ favorites' = IF i \in favorites THEN favorites \ {i}
                       ELSE favorites \cup {i}
       /\ Cardinality(favorites') <= MaxFavorites
       /\ UNCHANGED <<page_number, search_term, selected_states,
                      institution_types, notE>>

\* "Previous", offered when page_number > 0
PreviousPage ==
    /\ ControlsShown
    /\ page_number > 0
    /\ page_number' = page_number - 1
    /\ UNCHANGED <<search_term, selected_states, institution_types, favorites, notE>>

\* "Next", offered when (page_number + 1) * 10 < total_count
NextPage ==
    /\ ControlsShown
    /\ (page_number + 1) * PageSize < total_count
    /\ page_number' = page_number + 1
    /\ UNCHANGED <<search_term, selected_states, institution_types, favorites, notE>>

EInit ==
    /\ EQuiet
    /\ XQuiet /\ AQuiet /\ CQuiet /\ HQuiet /\ GQuiet /\ DQuiet /\ KQuiet /\ TQuiet /\ WQuiet

ENext ==
    \/ SearchChange \/ StatesChange \/ TypesChange
    \/ ToggleFavorite \/ PreviousPage \/ NextPage

SpecExplorer == EInit /\ [][ENext]_vars

\* C28: the page number is never negative and, whenever the filtered
\* result set is not empty, the current page lies inside it.
C28_PageInsideResults ==
    /\ page_number >= 0
    /\ (total_count > 0 => page_number * PageSize < total_count)


---------------------------------------------------------------------------
(* The timeline's deadlines (timeline.py): the Add Deadline form of        *)
(* manage_deadlines and the three updates of display_existing_deadlines,   *)
(* over the tables application_deadlines and deadline_reminders.           *)

MaxDeadlines == 2      \* rows of application_deadlines
ReminderDays == 7      \* timedelta(days=7)

Colleges == {"MIT", "UCLA"}
DeadlineTypes == {"Regular Decision"}
DeadlineDates == {20, 21}                \* days
DeadlineNotes == {"", "essay"}
DeadlineStatuses == {"pending", "in_progress", "completed"}

\* (SELECT id FROM application_deadlines WHERE user_id = .. AND
\*  college_name = .. AND deadline_type = ..)
DeadlineIds(rows, college_name, deadline_type) ==
    {i \in 1..Len(rows) : /\ rows[i].college_name = college_name
                          /\ rows[i].deadline_type = deadline_type}

\* a scalar subquery yielding more than one row is an error of the statement
SubqueryFails(ids) == Cardinality(ids) > 1

\* "Add Deadline": the deadline is inserted and committed, then the
\* automatic reminder; an error of the second statement is caught and shown
AddDeadline ==
    \E college_name \in Colleges, deadline_type \in DeadlineTypes,
       deadline_date \in DeadlineDates, requirements \in DeadlineNotes :
       LET rows == Append(application_deadlines,
                          [college_name |-> college_name,
                           deadline_type |-> deadline_type,
                           deadline_date |-> deadline_date,
                           notes |-> requirements,
                           status |-> "pending"])
           ids == DeadlineIds(rows, college_name, deadline_type)
           reminder_date == deadline_date - ReminderDays
       IN /\ Len(application_deadlines) < MaxDeadlines
          /\ application_deadlines' = rows
          /\ IF SubqueryFails(ids)
             THEN /\ deadline_reminders' = deadline_reminders
                  /\ lastSubmit' = "Failed to add deadline."
             ELSE /\ deadline_reminders' =
                        Append(deadline_reminders,
                               [deadline_id |-> CHOOSE i \in ids : TRUE,
                                reminder_date |-> reminder_date,
                                reminder_type |-> "one_week"])
                  /\ lastSubmit' = "Deadline added successfully!"
          /\ UNCHANGED notT

\* "Update Notes" of a listed deadline
UpdateNotes ==
    \E id \in 1..Len(application_deadlines), new_notes \in DeadlineNotes :
       /\ application_deadlines' =
             [application_deadlines EXCEPT ![id].notes = new_notes]
       /\ lastSubmit' = "Notes updated!"
       /\ UNCHANGED <<deadline_reminders, notT>>

\* "Update Date", offered when the date input differs from the stored date
UpdateDate ==
    \E id \in 1..Len(application_deadlines), new_date \in DeadlineDates :
       /\ new_date # application_deadlines[id].deadline_date
       /\ application_deadlines' =
             [application_deadlines EXCEPT ![id].deadline_date = new_date]
       /\ lastSubmit' = "Date updated!"
       /\ UNCHANGED <<deadline_reminders, notT>>

\* the status selectbox differs from the stored status
UpdateStatus ==
    \E id \in 1..Len(application_deadlines), new_status \in DeadlineStatuses :
       /\ new_status # application_deadlines[id].status
       /\ application_deadlines' =
             [application_deadlines EXCEPT ![id].status = new_status]
       /\ lastSubmit' = "Status updated!"
       /\ UNCHANGED <<deadline_reminders, notT>>

TInit ==
    /\ TQuiet
    /\ XQuiet /\ AQuiet /\ CQuiet /\ HQuiet /\ GQuiet /\ DQuiet /\ KQuiet /\ EQuiet /\ WQuiet

TNext == AddDeadline \/ UpdateNotes \/ UpdateDate \/ UpdateStatus

SpecTimeline == TInit /\ [][TNext]_vars

\* the 'one_week' reminders of a deadline
OneWeekReminders(id) ==
    {r \in 1..Len(deadline_reminders) :
        /\ deadline_reminders[r].deadline_id = id
        /\ deadline_reminders[r].reminder_type = "one_week"}

\* C29: every application deadline has exactly one 'one_week' reminder,
\* dated seven days before the deadline's current date, also when a college
\* and deadline type are added more than once.
C29_OneReminderSevenDaysBefore ==
    \A id \in 1..Len(application_deadlines) :
       /\ Cardinality(OneWeekReminders(id)) = 1
       /\ \A r \in OneWeekReminders(id) :
             deadline_reminders[r].reminder_date =
                application_deadlines[id].deadline_date - ReminderDays


---------------------------------------------------------------------------
(* The college-match walkthrough (college_matches.py 18-170): one click    *)
(* per action, on st.session_state.walkthrough_step and walkthrough_data.  *)

\* what the widgets of one step can hold
Answers == {"a", "b"}

\* current_step_data dropped instead of merged
StepAnswersDropped(data, step, answers) == data

\* walkthrough_data.update(current_step_data): the keys of the step shown
\* take the widgets' values, the other keys stay
StepAnswers(data, step, answers) == [data EXCEPT ![step] = answers]

\* the widgets of a step as the next run shows them
ShownWidgets(step) == IF step \in InputSteps THEN Answers ELSE {"none"}

\* the user changes a widget of the step shown
SetAnswer ==
    /\ walkthrough_step \in InputSteps
    /\ \E answers \in Answers \ {widgets} : widgets' = answers
    /\ lastClick' = "answer"
    /\ UNCHANGED <<walkthrough_step, walkthrough_data, walkthrough_complete,
                   lastGenerate, cvars, notW>>

\* "Previous", offered when walkthrough_step > 0
PreviousStep ==
    /\ walkthrough_step > 0
    /\ walkthrough_step' = walkthrough_step - 1
    /\ widgets' \in ShownWidgets(walkthrough_step')
    /\ lastClick' = "previous"
    /\ UNCHANGED <<walkthrough_data, walkthrough_complete, lastGenerate,
                   cvars, notW>>

\* "Next", offered when walkthrough_step < len(steps) - 1: the step's
\* answers are stored, then the step advances
NextStep ==
    /\ walkthrough_step < LastStep
    /\ walkthrough_data' = StepAnswers(walkthrough_data, walkthrough_step, widgets)
    /\ walkthrough_step' = walkthrough_step + 1
    /\ widgets' \in ShownWidgets(walkthrough_step')
    /\ lastClick' = "next"
    /\ UNCHANGED <<walkthrough_complete, lastGenerate, cvars, notW>>

\* "Generate Recommendations", offered on the last step:
\* generate_recommendations(st.session_state.walkthrough_data)
Generate ==
    /\ ~(walkthrough_step < LastStep)
    /\ StoreRecommendations
    /\ lastGenerate' = [called |-> TRUE, preferences |-> walkthrough_data]
    /\ walkthrough_complete' =
          (walkthrough_complete \/ college_matches' # college_matches)
    /\ lastClick' = "generate"
    /\ UNCHANGED <<walkthrough_step, walkthrough_data, widgets, notW>>

WInit ==
    /\ WQuiet
    /\ profile \in Gpas /\ now = 0 /\ college_matches = <<>>
    /\ nextDoc = 1 /\ lastFetch = NoFetch
    /\ conn = [no |-> 1, dirty |-> FALSE]
    /\ req = [r \in Requests |-> [pc |-> "idle", prof |-> "none", doc |-> 0]]
    /\ XQuiet /\ AQuiet /\ HQuiet /\ GQuiet /\ DQuiet /\ KQuiet /\ EQuiet /\ TQuiet

WNext == SetAnswer \/ PreviousStep \/ NextStep \/ Generate

SpecWalkthrough == WInit /\ [][WNext]_vars

\* the step stays within 0..3, and Generate Recommendations has only run
\* with the answers of steps 0, 1 and 2 in walkthrough_data
WalkthroughInRange ==
    /\ walkthrough_step \in 0..LastStep
    /\ lastGenerate.called =>
          \A s \in InputSteps : lastGenerate.preferences[s] \in Answers

\* a click moves the step by exactly one (Previous, Next) or not at all,
\* and Next stores the answers of the step it leaves
WalkthroughClick ==
    /\ lastClick' = "previous" => walkthrough_step' = walkthrough_step - 1
    /\ lastClick' = "next" =>
          /\ walkthrough_step' = walkthrough_step + 1
          /\ walkthrough_data'[walkthrough_step] = widgets
          /\ \A s \in InputSteps \ {walkthrough_step} :
                walkthrough_data'[s] = walkthrough_data[s]
    /\ lastClick' \notin {"previous", "next"} =>
          walkthrough_step' = walkthrough_step

\* C30: walkthrough_step stays within 0..3 and moves by exactly one per
\* Previous/Next click, Next stores the current step's answers before it
\* advances, and Generate Recommendations only runs with walkthrough_data
\* holding the answers of all three earlier steps.
C30_WalkthroughComplete ==
    [](WalkthroughInRange) /\ [][WalkthroughClick]_vars

\* recommendations were generated and stored on the review step, from
\* answers the user changed on the way
C30_Witness ==
    /\ lastGenerate.called
    /\ walkthrough_complete
    /\ \E s \in InputSteps : lastGenerate.preferences[s] = "b"
    /\ walkthrough_step = LastStep

=============================================================================
